---- MODULE Spec2Model ----
(***************************************************************************)
(* The speech turn-taking pipeline: the voice activity detector            *)
(* (src/audio/vad_detector.py), the capture and transcription loops        *)
(* (src/audio/audio_stream_manager.py) and the turn-taking batcher         *)
(* (src/ai/conversation_manager.py).                                       *)
(*                                                                         *)
(* Durations are integers in microseconds: one frame is 30 ms, so every    *)
(* duration the detector computes is a multiple of 30000, and the          *)
(* comparisons come out as the float comparisons of the source do          *)
(* (50 * 0.03 > 1.5 is false, 51 * 0.03 > 1.5 is true).                    *)
(***************************************************************************)
EXTENDS Integers, Sequences, FiniteSets, TLC

VARIABLES
    vad,            \* the VADDetector object (a record of its fields)
    vad_result,     \* what the last process_frame call returned
    hist,           \* observations of the frame-by-frame event trace
    fed,            \* how much input the audio source has delivered
    now,            \* the wall clock, time.time(), in tenths of a second
    cm,             \* the ConversationManager object (its batching fields)
    buffer_lock,    \* who holds ConversationManager.buffer_lock
    cb,             \* the thread calling _on_transcription_received
    sender,         \* the _batch_sender_loop thread
    ai,             \* the _ai_processing_loop thread
    bhist,          \* observations of the batcher: appends, flushes, dispatches
    asm,            \* the AudioStreamManager object (its pipeline fields)
    cap,            \* the _capture_loop threads, one per start() call
    tr,             \* the _transcription_loop threads, one per start() call
    main,           \* the thread calling start() and stop()
    phist,          \* observations of the pipeline: utterances and callbacks
    user_profile,   \* the UserSpeechProfile object the managers share
    profile_file,   \* the profile's JSON file: <<>> while there is none
    pcalls          \* observations of the profile and of the texts handled:
                    \* how many add_pause and update_statistics calls were
                    \* made, which texts the transcription loop handled

vadVars == <<vad, vad_result, hist, fed>>

batchVars == <<now, cm, buffer_lock, cb, sender, ai, bhist>>

pipeVars == <<asm, cap, tr, main, phist>>

profVars == <<user_profile, profile_file, pcalls>>

vars == <<vad, vad_result, hist, fed, now, cm, buffer_lock, cb, sender, ai, bhist,
          asm, cap, tr, main, phist, user_profile, profile_file, pcalls>>

----------------------------------------------------------------------------
(* audio_config.py *)

VAD_FRAME_DURATION_MS == 30

INITIAL_SILENCE_THRESHOLD == 1500000

THINKING_PAUSE_THRESHOLD == 2000000

MAX_SILENCE_BEFORE_INTERRUPT == 4000000

MIN_SPEECH_DURATION == 1000000

MAX_RECORDING_DURATION == 120000000

RingMaxLen == 10

\* frame_duration = self.frame_duration_ms / 1000.0, here in microseconds
frame_duration == VAD_FRAME_DURATION_MS * 1000

----------------------------------------------------------------------------
(* Bounds of the model *)

\* fragments handed to _on_transcription_received in a session
MaxFragments == 2

\* how long the batcher is watched, in clock ticks of a tenth of a second
MaxTicks == 14

\* single frames the audio source may deliver
MaxSingles == 1

\* runs of BurstLen identically classified frames the source may deliver
MaxBursts == 4

BurstLen == 40

\* adjust_for_more_time calls
MaxAdjust == 1

\* start() calls
MaxStarts == 2

\* bursts the audio source delivers to the running pipeline, and their length
PipeMaxBursts == 4

PipeBurstLen == 60

\* frames of the one long stretch of silence the source delivers
LongBurstLen == 4010

\* long stretches of silence
LongMaxBursts == 1

----------------------------------------------------------------------------
(* VADDetector *)

\* What a frame is, as far as process_frame can tell: of the wrong size,
\* one the webrtcvad call fails on, or classified speech / not speech
\* (too quiet, or webrtcvad says no).
FrameKinds == {"speech", "nonspeech", "wrong_size", "vad_error"}

VADDetector_init ==
    [ is_speaking                |-> FALSE,
      speech_frames              |-> 0,
      silence_frames             |-> 0,
      total_speech_duration      |-> 0,
      total_silence_duration     |-> 0,
      current_silence_threshold  |-> INITIAL_SILENCE_THRESHOLD,
      current_thinking_threshold |-> THINKING_PAUSE_THRESHOLD,
      current_max_silence        |-> MAX_SILENCE_BEFORE_INTERRUPT,
      in_thinking_mode           |-> FALSE,
      ring_buffer                |-> <<>> ]

\* a deque without maxlen
RingNeverDrops(ring, x) == Append(ring, x)

\* collections.deque(maxlen=10).append
RingAppend(ring, x) ==
    IF Len(ring) < RingMaxLen THEN Append(ring, x)
    ELSE Append(Tail(ring), x)

speech_count(ring) == Cardinality({i \in 1..Len(ring) : ring[i]})

\* smoothed_is_speech = speech_count > len(self.ring_buffer) / 2
smoothed_is_speech(ring) == 2 * speech_count(ring) > Len(ring)

EndSpeechKeepsSpeaking(v) == v

_end_speech(v) == [v EXCEPT !.is_speaking = FALSE]

GuardIgnored(v) == TRUE

\* the minimum-speech guard of the two non-thinking branches
SpeechLongEnough(v) == v.total_speech_duration >= MIN_SPEECH_DURATION

\* an utterance is ended by a silence run equal to the silence threshold
EndsAtThreshold(v) ==
    LET silence_duration == v.silence_frames * frame_duration IN
    IF v.in_thinking_mode
    THEN IF silence_duration > v.current_max_silence
         THEN [vad |-> _end_speech(v), result |-> "speech_end"]
         ELSE [vad |-> v, result |-> "silence"]
    ELSE IF silence_duration >= v.current_silence_threshold /\ SpeechLongEnough(v)
    THEN [vad |-> _end_speech(v), result |-> "speech_end"]
    ELSE [vad |-> v, result |-> "silence"]

\* thinking mode is not looked at: the two other thresholds and the guard
\* decide
ThinkingModeIgnored(v) ==
    LET silence_duration == v.silence_frames * frame_duration IN
    IF silence_duration > v.current_silence_threshold /\ SpeechLongEnough(v)
    THEN [vad |-> _end_speech(v), result |-> "speech_end"]
    ELSE [vad |-> v, result |-> "silence"]

\* The silence branch of process_frame for a detector that is_speaking;
\* v already has the counters of this frame.
SilenceWhileSpeaking(v) ==
    LET silence_duration == v.silence_frames * frame_duration IN
    IF v.in_thinking_mode
    THEN IF silence_duration > v.current_max_silence
         THEN [vad |-> _end_speech(v), result |-> "speech_end"]
         ELSE [vad |-> v, result |-> "silence"]
    ELSE IF silence_duration > v.current_thinking_threshold
    THEN IF ~SpeechLongEnough(v)
         THEN [vad |-> v, result |-> "silence"]
         ELSE [vad |-> _end_speech(v), result |-> "speech_end"]
    ELSE IF silence_duration > v.current_silence_threshold
    THEN IF SpeechLongEnough(v)
         THEN [vad |-> _end_speech(v), result |-> "speech_end"]
         ELSE [vad |-> v, result |-> "silence"]
    ELSE [vad |-> v, result |-> "silence"]

\* the frame is given to the smoothing buffer before its size is looked at
SizeCheckedLate(v0, frame) ==
    [vad |-> [v0 EXCEPT !.ring_buffer = RingAppend(@, frame = "speech")],
     result |-> "None"]

process_frame(v0, frame) ==
    IF frame \in {"wrong_size", "vad_error"}
    THEN [vad |-> v0, result |-> "None"]
    ELSE
    LET ring == RingAppend(v0.ring_buffer, frame = "speech")
        v1   == [v0 EXCEPT !.ring_buffer = ring]
    IN  IF smoothed_is_speech(ring)
        THEN LET v2 == [v1 EXCEPT !.silence_frames = 0,
                                  !.speech_frames = @ + 1,
                                  !.total_speech_duration = @ + frame_duration]
             IN  IF ~v2.is_speaking
                 THEN [vad |-> [v2 EXCEPT !.is_speaking = TRUE,
                                          !.in_thinking_mode = FALSE],
                       result |-> "speech_start"]
                 ELSE [vad |-> v2, result |-> "speech_continue"]
        ELSE LET v2 == [v1 EXCEPT !.speech_frames = 0,
                                  !.silence_frames = @ + 1,
                                  !.total_silence_duration = @ + frame_duration]
             IN  IF v2.is_speaking
                 THEN SilenceWhileSpeaking(v2)
                 ELSE [vad |-> v2, result |-> "None"]

enter_thinking_mode(v) == [v EXCEPT !.in_thinking_mode = TRUE]

exit_thinking_mode(v) == [v EXCEPT !.in_thinking_mode = FALSE]

\* x *= 1.5, exact on these values for the first five adjustments and
\* rounded down to the microsecond after them
TimesOneAndAHalf(x) == (x * 3) \div 2

\* only the silence threshold is raised
AdjustSilenceOnly(v) ==
    [v EXCEPT !.current_silence_threshold = TimesOneAndAHalf(@)]

adjust_for_more_time(v) ==
    [v EXCEPT !.current_silence_threshold  = TimesOneAndAHalf(@),
              !.current_thinking_threshold = TimesOneAndAHalf(@),
              !.current_max_silence        = TimesOneAndAHalf(@)]

\* the smoothing buffer left as it was
ResetKeepsRing(v) ==
    [v EXCEPT !.is_speaking = FALSE,
              !.speech_frames = 0,
              !.silence_frames = 0,
              !.total_speech_duration = 0,
              !.total_silence_duration = 0,
              !.in_thinking_mode = FALSE]

reset(v) ==
    [v EXCEPT !.is_speaking = FALSE,
              !.speech_frames = 0,
              !.silence_frames = 0,
              !.total_speech_duration = 0,
              !.total_silence_duration = 0,
              !.ring_buffer = <<>>,
              !.in_thinking_mode = FALSE]

----------------------------------------------------------------------------
(* Observation of the detector's event trace.  hist is not program state:  *)
(* it records, frame by frame, what the detector was given and returned.   *)

HistInit ==
    [ phase     |-> "init",   \* where the smoothed decisions are in the shape
                              \* speech run (with short gaps) / closing silence
      acc       |-> 0,        \* smoothed speech frames of the run, up to the guard
      gap       |-> 0,        \* smoothed silence frames of the current gap
      gaps      |-> FALSE,    \* the run was interrupted by a gap and resumed
      starts    |-> 0,        \* speech_start events returned (2: two or more)
      ends      |-> 0,        \* speech_end events returned (2: two or more)
      premature |-> FALSE,    \* a frame of an utterance with too little speech,
                              \* outside thinking mode, did not return silence
      open      |-> FALSE,    \* a speech_start was returned and neither a
                              \* speech_end nor a reset has followed it
      misordered |-> FALSE,   \* a speech_start was returned while one was
                              \* open, or a speech_end while none was
      thought   |-> FALSE,    \* thinking mode was on at some frame of the
                              \* current silence run, or has been entered
                              \* since the last frame
      raw       |-> <<>> ]    \* where it is followed: the raw decision of
                              \* every frame accepted since construction
                              \* or reset, TRUE for speech

UpTo2(n) == IF n >= 2 THEN 2 ELSE n + 1

\* The shape of the smoothed decisions seen since construction or reset:
\* "run" while they form one speech run whose silence gaps have not
\* exceeded the active silence threshold, "tail" once a run of at least
\* MIN_SPEECH_DURATION has been followed by silence exceeding it, "off"
\* for every other sequence.
ShapeAfter(h, v, d) ==
    CASE h.phase = "init" ->
            IF d THEN [h EXCEPT !.phase = "run", !.acc = 1, !.gap = 0]
                 ELSE [h EXCEPT !.phase = "off"]
      [] h.phase = "run" ->
            IF d
            THEN [h EXCEPT !.acc = IF @ * frame_duration >= MIN_SPEECH_DURATION
                                   THEN @ ELSE @ + 1,
                           !.gap = 0,
                           !.gaps = @ \/ h.gap > 0]
            ELSE IF (h.gap + 1) * frame_duration <= v.current_silence_threshold
                 THEN [h EXCEPT !.gap = @ + 1]
                 ELSE IF h.acc * frame_duration >= MIN_SPEECH_DURATION
                      THEN [h EXCEPT !.phase = "tail", !.gap = 0]
                      ELSE [h EXCEPT !.phase = "off"]
      [] h.phase = "tail" ->
            IF d THEN [h EXCEPT !.phase = "off"] ELSE h
      [] OTHER -> h

Observe(h, v, frame, out) ==
    IF frame \in {"wrong_size", "vad_error"} THEN h
    ELSE
    LET d  == smoothed_is_speech(out.vad.ring_buffer)
        h1 == ShapeAfter(h, v, d)
    IN  [h1 EXCEPT
           !.starts = IF out.result = "speech_start" THEN UpTo2(@) ELSE @,
           !.ends   = IF out.result = "speech_end" THEN UpTo2(@) ELSE @,
           !.open   = CASE out.result = "speech_start" -> TRUE
                        [] out.result = "speech_end"   -> FALSE
                        [] OTHER                       -> @,
           !.misordered = @ \/ (out.result = "speech_start" /\ h.open)
                            \/ (out.result = "speech_end" /\ ~h.open),
           !.thought = (~d /\ h.thought) \/ out.vad.in_thinking_mode,
           !.premature =
               @ \/ ( /\ v.is_speaking
                      /\ ~v.in_thinking_mode
                      /\ ~d
                      /\ out.vad.total_speech_duration < MIN_SPEECH_DURATION
                      /\ ~(out.result = "silence" /\ out.vad.is_speaking) )]

\* One process_frame call on the detector, observed.
StepOne(s, frame) ==
    LET out == process_frame(s.vad, frame)
    IN  [vad |-> out.vad, result |-> out.result,
         hist |-> Observe(s.hist, s.vad, frame, out)]

\* The detector and its audio source before any frame.
FedInit ==
    [singles |-> 0, bursts |-> 0, adjusts |-> 0, run_left |-> 0, run_kind |-> "none"]

VADStart ==
    /\ vad = VADDetector_init
    /\ vad_result = "None"
    /\ hist = HistInit
    /\ fed = FedInit

----------------------------------------------------------------------------
(* user_profile.py: the speech profile and its manager.  Durations are     *)
(* integers in microseconds, as the detector's; a learning rate is a       *)
(* number of tenths (10 is the default 1.0).                               *)

NORMAL_WORDS_PER_MINUTE == 150

\* Keep only last 100 pauses
PauseHistoryMax == 100

\* max(..., 1.0): Minimum 1 second
SilenceFloor == 1000000

\* avg_between_sentence_pause + 0.5 and silence_threshold + 0.5
HalfSecond == 500000

\* thinking_pause_threshold + 1.0
OneSecond == 1000000

\* a learning rate of 1.0
FullRate == 10

\* DEFAULT_USER_ID = "default_user"
DEFAULT_USER_ID == "default_user"

\* UserSpeechProfile(user_id=user_id): the dataclass defaults, None being
\* "None"; calibration_time is in tenths of a second
UserSpeechProfile_default ==
    [ user_id                      |-> DEFAULT_USER_ID,
      avg_within_sentence_pause    |-> 500000,
      avg_between_sentence_pause   |-> 1000000,
      avg_thinking_pause           |-> 2000000,
      words_per_minute             |-> NORMAL_WORDS_PER_MINUTE,
      silence_threshold            |-> INITIAL_SILENCE_THRESHOLD,
      thinking_pause_threshold     |-> THINKING_PAUSE_THRESHOLD,
      max_silence_before_interrupt |-> MAX_SILENCE_BEFORE_INTERRUPT,
      is_calibrated                |-> FALSE,
      calibration_time             |-> 0,
      total_words_spoken           |-> 0,
      style_summary                |-> "None",
      style_last_updated           |-> "None",
      pause_history                |-> <<>> ]

Locations == {"within_sentence", "between_sentences", "mid_thought"}

\* max(a, b)
Max(a, b) == IF b > a THEN b ELSE a


RECURSIVE Sum(_)
\* sum(durations)
Sum(ds) == IF ds = <<>> THEN 0 ELSE Head(ds) + Sum(Tail(ds))

RECURSIVE Durations(_, _, _)
\* [p["duration"] for p in pause_history if <the pause is of the kind>]:
\* kind is a location, or "thinking" for was_thinking_pause
Durations(history, kind, i) ==
    IF i > Len(history) THEN <<>>
    ELSE LET p == history[i]
             of_kind == IF kind = "thinking" THEN p.was_thinking_pause
                        ELSE p.location = kind
         IN  IF of_kind THEN <<p.duration>> \o Durations(history, kind, i + 1)
             ELSE Durations(history, kind, i + 1)

\* the first 100 kept instead of the last
AddPauseKeepsOldest(profile, pause) ==
    LET h == Append(profile.pause_history, pause)
    IN  [profile EXCEPT !.pause_history =
            IF Len(h) > PauseHistoryMax THEN SubSeq(h, 1, PauseHistoryMax) ELSE h]

\* add_pause: the pause is appended and the last 100 kept
add_pause(profile, pause) ==
    LET h == Append(profile.pause_history, pause)
    IN  [profile EXCEPT !.pause_history =
            IF Len(h) > PauseHistoryMax
            THEN SubSeq(h, Len(h) - PauseHistoryMax + 1, Len(h))
            ELSE h]

\* learning_rate * new_avg + (1 - learning_rate) * old, new_avg being
\* sum(ds) / len(ds); the old average is kept when ds is empty.  The
\* divisions are exact on the durations and rates the model draws.
moving_average(ds, old, learning_rate) ==
    IF ds = <<>> THEN old
    ELSE LET new_avg == Sum(ds) \div Len(ds)
         IN  (learning_rate * new_avg + (FullRate - learning_rate) * old)
                 \div FullRate

\* x * 0.8
TimesFourFifths(x) == (x * 4) \div 5

\* the floor left out
SilenceWithoutFloor(avg_between) == avg_between + HalfSecond

\* profile.silence_threshold = max(avg_between_sentence_pause + 0.5, 1.0)
silence_threshold(avg_between) == Max(avg_between + HalfSecond, SilenceFloor)

\* the margin over silence_threshold left out
ThinkingWithoutMargin(avg_thinking, silence) == TimesFourFifths(avg_thinking)

\* profile.thinking_pause_threshold =
\*     max(avg_thinking_pause * 0.8, silence_threshold + 0.5)
thinking_pause_threshold(avg_thinking, silence) ==
    Max(TimesFourFifths(avg_thinking), silence + HalfSecond)

\* profile.max_silence_before_interrupt =
\*     max(avg_thinking_pause * 1.5, thinking_pause_threshold + 1.0)
max_silence_before_interrupt(avg_thinking, thinking) ==
    Max(TimesOneAndAHalf(avg_thinking), thinking + OneSecond)

\* update_statistics(profile, learning_rate)
update_statistics(profile, learning_rate) ==
    IF profile.pause_history = <<>> THEN profile
    ELSE
    LET h        == profile.pause_history
        within   == moving_average(Durations(h, "within_sentence", 1),
                        profile.avg_within_sentence_pause, learning_rate)
        between  == moving_average(Durations(h, "between_sentences", 1),
                        profile.avg_between_sentence_pause, learning_rate)
        thinking == moving_average(Durations(h, "thinking", 1),
                        profile.avg_thinking_pause, learning_rate)
        silence  == silence_threshold(between)
        think    == thinking_pause_threshold(thinking, silence)
    IN  [profile EXCEPT
            !.avg_within_sentence_pause    = within,
            !.avg_between_sentence_pause   = between,
            !.avg_thinking_pause           = thinking,
            !.silence_threshold            = silence,
            !.thinking_pause_threshold     = think,
            !.max_silence_before_interrupt =
                max_silence_before_interrupt(thinking, think)]

\* update_speaking_rate(profile, wpm, learning_rate)
update_speaking_rate(profile, wpm, learning_rate) ==
    [profile EXCEPT !.words_per_minute =
        (learning_rate * wpm + (FullRate - learning_rate) * @) \div FullRate]

\* complete_calibration(profile), before its save_profile(profile)
complete_calibration(profile) == [profile EXCEPT !.is_calibrated = TRUE]

\* the profile is made anew for the same user
ResetToDefaults(profile) ==
    [UserSpeechProfile_default EXCEPT !.user_id = profile.user_id]

\* reset_calibration(profile)
reset_calibration(profile) ==
    [profile EXCEPT !.is_calibrated = FALSE,
                    !.calibration_time = 0,
                    !.total_words_spoken = 0,
                    !.pause_history = <<>>]

\* The fields of the dataclass by their type
NumberFields ==
    {"avg_within_sentence_pause", "avg_between_sentence_pause",
     "avg_thinking_pause", "words_per_minute", "silence_threshold",
     "thinking_pause_threshold", "max_silence_before_interrupt",
     "calibration_time", "total_words_spoken"}

OptionalStringFields == {"style_summary", "style_last_updated"}

ProfileFields ==
    NumberFields \cup OptionalStringFields
        \cup {"user_id", "is_calibrated", "pause_history"}

\* to_dict: asdict(self), a dict with one key per field
to_dict(profile) == [key \in ProfileFields |-> profile[key]]

\* JSON text, value by value: a number, true / false, null, a quoted
\* string.  A value of the text is [t |-> its kind, v |-> what it spells].
json_number(n) == [t |-> "number", v |-> n]

json_bool(b) == [t |-> IF b THEN "true" ELSE "false", v |-> 0]

json_string(str) == [t |-> "string", v |-> str]

json_null == [t |-> "null", v |-> 0]

\* json.dump of one pause of the history
dump_pause(p) ==
    [ duration           |-> json_number(p.duration),
      location           |-> json_string(p.location),
      was_thinking_pause |-> json_bool(p.was_thinking_pause) ]

\* json.dump(data, f): the text written for the dict of a profile
json_dump(data) ==
    [key \in DOMAIN data |->
        CASE key \in NumberFields -> json_number(data[key])
          [] key = "is_calibrated" -> json_bool(data[key])
          [] key = "user_id" -> json_string(data[key])
          [] key \in OptionalStringFields ->
                IF data[key] = "None" THEN json_null ELSE json_string(data[key])
          [] OTHER -> [t |-> "array",
                       v |-> <<>> \o [i \in 1..Len(data[key]) |->
                                          dump_pause(data[key][i])]]]

\* json.load of one value: a number, True / False, None, a str, a list of
\* dicts
load_value(j) ==
    CASE j.t = "number" -> j.v
      [] j.t = "true"   -> TRUE
      [] j.t = "false"  -> FALSE
      [] j.t = "null"   -> "None"
      [] j.t = "string" -> j.v
      [] OTHER -> <<>> \o [i \in 1..Len(j.v) |->
                      [ duration           |-> j.v[i].duration.v,
                        location           |-> j.v[i].location.v,
                        was_thinking_pause |-> j.v[i].was_thinking_pause.t = "true" ]]

\* json.load(f): the dict the text spells
json_load(text) == [key \in DOMAIN text |-> load_value(text[key])]

\* the keys of the file are ignored
FromDictDefaults(data) == UserSpeechProfile_default

\* from_dict: cls(**data).  A field the dict does not name takes its
\* default; __post_init__ turns a pause_history of None into [].
from_dict(data) ==
    [key \in ProfileFields |->
        IF key \in DOMAIN data
        THEN IF key = "pause_history" /\ data[key] = "None" THEN <<>>
             ELSE data[key]
        ELSE UserSpeechProfile_default[key]]

\* What a profile file can be: one that open() or json.load fails on, or
\* JSON text
unreadable_file == [kind |-> "unreadable", text |-> <<>>]

\* save_profile(profile): the file holds what json.dump wrote
save_profile(profile) == <<[kind |-> "json", text |-> json_dump(to_dict(profile))]>>

\* whatever json.load gives is made a profile
LoadsAnything(text) == TRUE

\* cls(**data) raises TypeError for a dict without user_id or with a key
\* that is no field; the log line (lines 106-110) raises for a
\* words_per_minute that is no number
loads_cleanly(text) ==
    /\ DOMAIN text \subseteq ProfileFields
    /\ "user_id" \in DOMAIN text
    /\ "words_per_minute" \in DOMAIN text
          => text["words_per_minute"].t \in {"number", "true", "false"}

\* load_profile(user_id): file is what the profile path holds, <<>> when
\* nothing is there
load_profile(file, user_id) ==
    IF file # <<>> /\ file[1].kind = "json" /\ loads_cleanly(file[1].text)
    THEN from_dict(json_load(file[1].text))
    ELSE [UserSpeechProfile_default EXCEPT !.user_id = user_id]

\* SpeakingRateCalculator.__init__; the time is in tenths of a second
SpeakingRateCalculator_init ==
    [speech_start_time |-> "None", total_words |-> 0, total_speech_time |-> 0]

\* nothing observed yet
PcallsInit ==
    [ pauses   |-> 0,        \* add_pause calls
      updates  |-> 0,        \* update_statistics calls
      texts    |-> 0,        \* non-empty texts handled (up to a bound)
      words    |-> 0,        \* their words (up to MIN_CALIBRATION_WORDS)
      requests |-> 0,        \* start_style_analysis calls that went out
      last     |-> "None",   \* the text just handled, "None" once a
                             \* frame or the clock has come after it
      heard    |-> <<>>,     \* its characters, where the session follows
                             \* them: those of the last text handled
      store    |-> [ op      |-> "none",   \* the last save_profile or
                                           \* load_profile call, or damage
                     profile |-> UserSpeechProfile_default ] ]
                             \* the profile as save_profile was given it

\* a fresh default profile, no file written, nothing learned
ProfileIdle ==
    /\ user_profile = UserSpeechProfile_default
    /\ profile_file = <<>>
    /\ pcalls = PcallsInit

----------------------------------------------------------------------------
(* AudioStreamManager: the object as constructed *)

Starts == 1..MaxStarts

NoItem == [no |-> 0, audio |-> <<>>]

AudioStreamManager_init ==
    [ is_running          |-> FALSE,
      is_listening        |-> FALSE,
      audio_buffer        |-> <<>>,     \* the frames, by their number
      transcription_queue |-> <<>>,
      stream              |-> "None",
      speaking_rate_calc  |-> SpeakingRateCalculator_init,
      calibration_transcripts |-> <<>>,   \* of self.calibration_manager
      style_analysis_started  |-> FALSE ]

\* self.transcription_queue = queue.Queue(): maxsize 0, a queue without bound
transcription_queue_maxsize == 0

\* a hand-off without a buffer: a put waits until a consumer is waiting
\* in get
FullUnlessConsumerWaits(q) == ~\E k \in Starts : tr[k].pc = "get"

\* Queue.put(item) blocks while the queue is full
queue_full(q) ==
    /\ transcription_queue_maxsize > 0
    /\ Len(q) >= transcription_queue_maxsize

PipeIdle ==
    /\ asm = AudioStreamManager_init
    /\ cap = [k \in Starts |-> "none"]
    /\ tr = [k \in Starts |-> [pc |-> "none", audio_bytes |-> NoItem]]
    /\ main = [pc |-> "idle", starts |-> 0]
    /\ phist = [ frames    |-> 0,      \* frames read from the stream
                 finalized |-> 0,      \* utterances put on the queue
                 handed    |-> <<>>,   \* utterances given to the transcriber
                 texted    |-> 0,      \* utterances transcribed to a text and
                                       \* done with by the transcription loop
                 callbacks |-> 0,      \* on_transcription calls
                 expected  |-> <<>> ]  \* the frames of the open utterance as
                                       \* the events returned define it

----------------------------------------------------------------------------
(* ConversationManager: the turn-taking batcher.  Times are in tenths of   *)
(* a second.  A text is a sequence of characters; a fragment carries, with *)
(* its text, the number of the call that delivered it (an observation: the *)
(* program keeps the text only).                                           *)

\* self.batch_timeout_sentence_end = 0.0
batch_timeout_sentence_end == 0

\* self.batch_timeout_mid_sentence = 1.2
batch_timeout_mid_sentence == 12

\* time.sleep(0.5)
PollInterval == 5

\* time.time() when the manager is constructed: any value far above the
\* timeouts (self.last_utterance_time = 0 is the epoch)
StartTime == 100

\* The texts the transcription loop delivers: result["text"].strip(), never
\* empty.  One without punctuation, one ending a sentence, one with
\* punctuation inside only.
Texts == { <<"a">>, <<"a", "?">>, <<"!", "a">> }

RECURSIVE Join(_)
\* " ".join(texts)
Join(texts) ==
    IF texts = <<>> THEN <<>>
    ELSE IF Len(texts) = 1 THEN texts[1]
    ELSE texts[1] \o <<" ">> \o Join(Tail(texts))

RECURSIVE rstrip(_)
rstrip(t) ==
    IF t # <<>> /\ t[Len(t)] = " " THEN rstrip(SubSeq(t, 1, Len(t) - 1)) ELSE t

\* combined_text.rstrip()[-1] if combined_text.strip() else ""
last_char(combined_text) ==
    LET r == rstrip(combined_text) IN IF r = <<>> THEN "" ELSE r[Len(r)]

\* last_char in ".!?"  (the empty string is in every string)
ends_with_sentence(combined_text) ==
    last_char(combined_text) \in {"", ".", "!", "?"}

timeout_to_use(combined_text) ==
    IF ends_with_sentence(combined_text) THEN batch_timeout_sentence_end
    ELSE batch_timeout_mid_sentence

TextsOf(buffer) == [i \in 1..Len(buffer) |-> buffer[i].text]

IdsOf(buffer) == [i \in 1..Len(buffer) |-> buffer[i].id]

LockIgnored(lock) == TRUE

\* with self.buffer_lock: the lock can be taken
LockFree(lock) == lock = "free"

TakeLast(q) == q[Len(q)]

\* queue.Queue.get: first in, first out
QueueGet(q) == Head(q)

QueueRest(q, x) ==
    LET i == CHOOSE j \in 1..Len(q) : q[j] = x
    IN  SubSeq(q, 1, i - 1) \o SubSeq(q, i + 1, Len(q))

BatchInit ==
    /\ now = StartTime
    /\ cm = [ is_running          |-> TRUE,
              utterance_buffer    |-> <<>>,
              last_utterance_time |-> 0,
              ai_response_queue   |-> <<>> ]
    /\ buffer_lock = "free"
    /\ cb = [pc |-> "idle", text |-> <<>>, id |-> 0]
    /\ sender = [pc |-> "top", wake |-> 0, current_time |-> 0,
                 time_since_last_utterance |-> 0, combined_text |-> <<>>]
    /\ ai = [pc |-> "get", user_utterance |-> <<>>]
    /\ bhist = [ calls       |-> 0,      \* calls of _on_transcription_received
                 said        |-> <<>>,   \* the text of each call
                 appended    |-> <<>>,   \* fragment numbers, in append order
                 last_append |-> 0,      \* when the latest append was stamped
                 enqueued    |-> <<>>,   \* the turns put on ai_response_queue
                 dispatched  |-> <<>>,   \* the turns given to generate_response
                 flush       |-> [kind |-> "none", since_append |-> 0],
                 punct_wait  |-> FALSE ] \* a poll saw a sentence end and waited

\* The batcher that is never started (the detector is looked at alone).
BatchIdle ==
    /\ now = StartTime
    /\ cm = [ is_running          |-> FALSE,
              utterance_buffer    |-> <<>>,
              last_utterance_time |-> 0,
              ai_response_queue   |-> <<>> ]
    /\ buffer_lock = "free"
    /\ cb = [pc |-> "idle", text |-> <<>>, id |-> 0]
    /\ sender = [pc |-> "stopped", wake |-> 0, current_time |-> 0,
                 time_since_last_utterance |-> 0, combined_text |-> <<>>]
    /\ ai = [pc |-> "stopped", user_utterance |-> <<>>]
    /\ bhist = [ calls |-> 0, said |-> <<>>, appended |-> <<>>, last_append |-> 0,
                 enqueued |-> <<>>, dispatched |-> <<>>,
                 flush |-> [kind |-> "none", since_append |-> 0],
                 punct_wait |-> FALSE ]

\* time passes; time.sleep(0.5) does not oversleep
Tick ==
    /\ now < StartTime + MaxTicks
    /\ sender.pc = "sleep" => now < sender.wake
    /\ now' = now + 1
    /\ UNCHANGED <<cm, buffer_lock, cb, sender, ai, bhist, vadVars, pipeVars,
                   profVars>>

\* _on_transcription_received(text) is called: lines 140-154
CallbackCall ==
    /\ cb.pc = "idle"
    /\ bhist.calls < MaxFragments
    /\ \E text \in Texts :
          /\ cb' = [pc |-> "append", text |-> text, id |-> bhist.calls + 1]
          /\ bhist' = [bhist EXCEPT !.calls = @ + 1, !.said = Append(@, text)]
    /\ UNCHANGED <<now, cm, buffer_lock, sender, ai, vadVars, pipeVars,
                   profVars>>

\* with self.buffer_lock: self.utterance_buffer.append(text)
CallbackAppend ==
    /\ cb.pc = "append"
    /\ LockFree(buffer_lock)
    /\ buffer_lock' = "callback"
    /\ cm' = [cm EXCEPT !.utterance_buffer =
                           Append(@, [id |-> cb.id, text |-> cb.text])]
    /\ cb' = [cb EXCEPT !.pc = "stamp"]
    /\ bhist' = [bhist EXCEPT !.appended = Append(@, cb.id)]
    /\ UNCHANGED <<now, sender, ai, vadVars, pipeVars, profVars>>

\* self.last_utterance_time = time.time(); the lock is released
CallbackStamp ==
    /\ cb.pc = "stamp"
    /\ cm' = [cm EXCEPT !.last_utterance_time = now]
    /\ buffer_lock' = "free"
    /\ cb' = [cb EXCEPT !.pc = "idle"]
    /\ bhist' = [bhist EXCEPT !.last_append = now]
    /\ UNCHANGED <<now, sender, ai, vadVars, pipeVars, profVars>>

\* while self.is_running: ... time.sleep(0.5) begins, or the loop ends
SenderTop ==
    /\ sender.pc = "top"
    /\ sender' = IF cm.is_running
                 THEN [sender EXCEPT !.pc = "sleep", !.wake = now + PollInterval]
                 ELSE [sender EXCEPT !.pc = "stopped"]
    /\ UNCHANGED <<now, cm, buffer_lock, cb, ai, bhist, vadVars, pipeVars,
                   profVars>>

\* the sleep is over: current_time = time.time()
SenderReadClock ==
    /\ sender.pc = "sleep"
    /\ now >= sender.wake
    /\ sender' = [sender EXCEPT !.pc = "read_last", !.wake = 0,
                                !.current_time = now]
    /\ UNCHANGED <<now, cm, buffer_lock, cb, ai, bhist, vadVars, pipeVars,
                   profVars>>

\* time_since_last_utterance = current_time - self.last_utterance_time,
\* read before the lock is taken
SenderReadLast ==
    /\ sender.pc = "read_last"
    /\ sender' = [sender EXCEPT
                    !.pc = "lock",
                    !.time_since_last_utterance =
                        sender.current_time - cm.last_utterance_time]
    /\ UNCHANGED <<now, cm, buffer_lock, cb, ai, bhist, vadVars, pipeVars,
                   profVars>>

\* with self.buffer_lock: the buffer is looked at and the decision taken
SenderLockCheck ==
    /\ sender.pc = "lock"
    /\ LockFree(buffer_lock)
    /\ LET buffer        == cm.utterance_buffer
           combined_text == Join(TextsOf(buffer))
           sentence      == ends_with_sentence(combined_text)
           flush         == sender.time_since_last_utterance
                               >= timeout_to_use(combined_text)
           done          == [sender EXCEPT !.pc = "top",
                                           !.current_time = 0,
                                           !.time_since_last_utterance = 0]
       IN  IF Len(buffer) = 0
           THEN /\ sender' = done
                /\ UNCHANGED <<buffer_lock, bhist>>
           ELSE IF flush
           THEN /\ sender' = [done EXCEPT !.pc = "put",
                                          !.combined_text =
                                               [ids |-> IdsOf(buffer),
                                                text |-> combined_text]]
                /\ buffer_lock' = "sender"
                /\ bhist' = [bhist EXCEPT
                      !.flush = [kind |-> IF sentence THEN "sentence_end"
                                          ELSE "mid_sentence",
                                 since_append |-> now - bhist.last_append]]
           ELSE /\ sender' = done
                /\ bhist' = [bhist EXCEPT !.punct_wait = @ \/ sentence]
                /\ UNCHANGED buffer_lock
    /\ UNCHANGED <<now, cm, cb, ai, vadVars, pipeVars, profVars>>

\* self.ai_response_queue.put(combined_text)
SenderPut ==
    /\ sender.pc = "put"
    /\ cm' = [cm EXCEPT !.ai_response_queue = Append(@, sender.combined_text)]
    /\ sender' = [sender EXCEPT !.pc = "clear"]
    /\ bhist' = [bhist EXCEPT !.enqueued = Append(@, sender.combined_text.ids)]
    /\ UNCHANGED <<now, buffer_lock, cb, ai, vadVars, pipeVars, profVars>>

\* self.utterance_buffer = []; self.last_utterance_time = 0; lock released
SenderClear ==
    /\ sender.pc = "clear"
    /\ cm' = [cm EXCEPT !.utterance_buffer = <<>>, !.last_utterance_time = 0]
    /\ buffer_lock' = "free"
    /\ sender' = [sender EXCEPT !.pc = "top", !.combined_text = <<>>]
    /\ UNCHANGED <<now, cb, ai, bhist, vadVars, pipeVars, profVars>>

\* while self.is_running: user_utterance = self.ai_response_queue.get(timeout=1)
\* then self.companion.generate_response(user_utterance) is called
AIGet ==
    /\ ai.pc = "get"
    /\ IF ~cm.is_running
       THEN /\ ai' = [ai EXCEPT !.pc = "stopped"]
            /\ UNCHANGED <<cm, bhist>>
       ELSE /\ cm.ai_response_queue # <<>>
            /\ LET u == QueueGet(cm.ai_response_queue)
               IN  /\ ai' = [pc |-> "generate", user_utterance |-> u]
                   /\ cm' = [cm EXCEPT !.ai_response_queue = QueueRest(@, u)]
                   /\ bhist' = [bhist EXCEPT !.dispatched = Append(@, u)]
    /\ UNCHANGED <<now, buffer_lock, cb, sender, vadVars, pipeVars, profVars>>

\* generate_response returns or raises; the reply is logged and spoken
AIDone ==
    /\ ai.pc = "generate"
    /\ ai' = [pc |-> "get", user_utterance |-> <<>>]
    /\ UNCHANGED <<now, cm, buffer_lock, cb, sender, bhist, vadVars, pipeVars,
                   profVars>>

NextBatch ==
    \/ Tick
    \/ CallbackCall
    \/ CallbackAppend
    \/ CallbackStamp
    \/ SenderTop
    \/ SenderReadClock
    \/ SenderReadLast
    \/ SenderLockCheck
    \/ SenderPut
    \/ SenderClear
    \/ AIGet
    \/ AIDone

InitBatch == VADStart /\ PipeIdle /\ BatchInit /\ ProfileIdle

SpecBatch == InitBatch /\ [][NextBatch]_vars

----------------------------------------------------------------------------
(* Claims about the batcher *)

RECURSIVE Flatten(_)
Flatten(seqs) == IF seqs = <<>> THEN <<>> ELSE Head(seqs) \o Flatten(Tail(seqs))

IsPrefix(a, b) == Len(a) <= Len(b) /\ SubSeq(b, 1, Len(a)) = a

Occurrences(x, seq) == Cardinality({i \in 1..Len(seq) : seq[i] = x})

\* C3: a buffer whose text does not end in '.', '!' or '?' is flushed only
\* when at least the mid-thought timeout has elapsed since the most recent
\* append.
C3_MidSentenceFlushWaits ==
    bhist.flush.kind = "mid_sentence"
        => bhist.flush.since_append >= batch_timeout_mid_sentence

\* C4: every appended fragment is still in the buffer or in a turn that was
\* enqueued, and in no more than one turn.
C4_NoFragmentLostOrDuplicated ==
    \A id \in 1..bhist.calls :
        Occurrences(id, bhist.appended) = 1 =>
            /\ \/ Occurrences(id, IdsOf(cm.utterance_buffer)) = 1
               \/ Occurrences(id, Flatten(bhist.enqueued)) = 1
            /\ Occurrences(id, Flatten(bhist.enqueued)) <= 1

\* a fragment arrives while the flush of an earlier one is under way
C4_Witness ==
    /\ cb.pc = "append"
    /\ sender.pc = "clear"
    /\ buffer_lock = "sender"

\* C5: the first poll that finds the buffer ending in '.', '!' or '?'
\* flushes it.
C5_SentenceEndFlushedAtFirstPoll == ~bhist.punct_wait

\* C8: each dispatched turn is its fragments joined in arrival order, and
\* the fragments of the dispatched turns, read in dispatch order, are the
\* appended fragments in append order.
C8_DispatchKeepsAppendOrder ==
    /\ IsPrefix(Flatten([i \in 1..Len(bhist.dispatched) |->
                            bhist.dispatched[i].ids]), bhist.appended)
    /\ \A i \in 1..Len(bhist.dispatched) :
          LET turn == bhist.dispatched[i]
          IN  turn.text = Join([k \in 1..Len(turn.ids) |-> bhist.said[turn.ids[k]]])

\* two turns have been dispatched
C8_Witness == Len(bhist.dispatched) = 2

----------------------------------------------------------------------------
(* Scenario A: five fragments without terminal punctuation, appended 0.3 s *)
(* apart to an empty buffer, then 3 s in which nothing is appended.  The   *)
(* poll loop was started earlier, so its first wake-up falls anywhere in   *)
(* the first poll interval.                                                *)

ScenarioA == [fragments |-> 5, gap |-> 3, quiet |-> 30, text |-> <<"a">>]

ScenarioEnd == StartTime + (ScenarioA.fragments - 1) * ScenarioA.gap + ScenarioA.quiet

\* the next fragment is due now
ScenarioDue ==
    /\ bhist.calls < ScenarioA.fragments
    /\ now = StartTime + bhist.calls * ScenarioA.gap

ScenarioInit ==
    /\ now = StartTime
    /\ cm = [ is_running          |-> TRUE,
              utterance_buffer    |-> <<>>,
              last_utterance_time |-> 0,
              ai_response_queue   |-> <<>> ]
    /\ buffer_lock = "free"
    /\ cb = [pc |-> "idle", text |-> <<>>, id |-> 0]
    /\ \E first \in StartTime .. StartTime + PollInterval - 1 :
          sender = [pc |-> "sleep", wake |-> first, current_time |-> 0,
                    time_since_last_utterance |-> 0, combined_text |-> <<>>]
    /\ ai = [pc |-> "get", user_utterance |-> <<>>]
    /\ bhist = [ calls |-> 0, said |-> <<>>, appended |-> <<>>, last_append |-> 0,
                 enqueued |-> <<>>, dispatched |-> <<>>,
                 flush |-> [kind |-> "none", since_append |-> 0],
                 punct_wait |-> FALSE ]

\* time passes, but not past a fragment that is due or being appended, and
\* not past the end of a sleep
ScenarioTick ==
    /\ now < ScenarioEnd
    /\ cb.pc = "idle"
    /\ ~ScenarioDue
    /\ sender.pc = "sleep" => now < sender.wake
    /\ now' = now + 1
    /\ UNCHANGED <<cm, buffer_lock, cb, sender, ai, bhist, vadVars, pipeVars,
                   profVars>>

\* _on_transcription_received(text) is called with the fragment that is due
ScenarioCall ==
    /\ cb.pc = "idle"
    /\ ScenarioDue
    /\ cb' = [pc |-> "append", text |-> ScenarioA.text, id |-> bhist.calls + 1]
    /\ bhist' = [bhist EXCEPT !.calls = @ + 1, !.said = Append(@, ScenarioA.text)]
    /\ UNCHANGED <<now, cm, buffer_lock, sender, ai, vadVars, pipeVars,
                   profVars>>

NextScenarioA ==
    \/ ScenarioTick
    \/ ScenarioCall
    \/ CallbackAppend
    \/ CallbackStamp
    \/ SenderTop
    \/ SenderReadClock
    \/ SenderReadLast
    \/ SenderLockCheck
    \/ SenderPut
    \/ SenderClear
    \/ AIGet
    \/ AIDone

InitScenarioA == VADStart /\ PipeIdle /\ ScenarioInit /\ ProfileIdle

SpecScenarioA == InitScenarioA /\ [][NextScenarioA]_vars

\* C6: in scenario A no turn is flushed that is not the five fragments in
\* arrival order, and no more than one turn is flushed.
C6_ScenarioAOneFlushOfAllFive ==
    /\ Len(bhist.enqueued) <= 1
    /\ \A i \in 1..Len(bhist.enqueued) :
          bhist.enqueued[i] = [k \in 1..ScenarioA.fragments |-> k]

----------------------------------------------------------------------------
(* The detector on its own: frames and commands.  The audio source         *)
(* delivers single frames of any kind and bursts of BurstLen frames that   *)
(* are all classified speech or all classified not speech; a burst is      *)
(* processed frame by frame, and the commands arrive between bursts.       *)

InitVAD == VADStart /\ PipeIdle /\ BatchIdle /\ ProfileIdle

Fed(frame) ==
    LET s == StepOne([vad |-> vad, result |-> vad_result, hist |-> hist], frame)
    IN  /\ vad' = s.vad
        /\ vad_result' = s.result
        /\ hist' = s.hist

\* process_frame(frame), one frame of any kind
Frame ==
    /\ fed.run_left = 0
    /\ fed.singles < MaxSingles
    /\ \E frame \in FrameKinds : Fed(frame)
    /\ fed' = [fed EXCEPT !.singles = @ + 1]
    /\ UNCHANGED <<batchVars, pipeVars, profVars>>

\* process_frame on the first frame of a burst
Burst ==
    /\ fed.run_left = 0
    /\ fed.bursts < MaxBursts
    /\ \E frame \in {"speech", "nonspeech"} :
          /\ Fed(frame)
          /\ fed' = [fed EXCEPT !.bursts = @ + 1,
                                !.run_left = BurstLen - 1,
                                !.run_kind = frame]
    /\ UNCHANGED <<batchVars, pipeVars, profVars>>

\* process_frame on the next frame of the burst
BurstNext ==
    /\ fed.run_left > 0
    /\ Fed(fed.run_kind)
    /\ fed' = [fed EXCEPT !.run_left = @ - 1,
                          !.run_kind = IF fed.run_left = 1 THEN "none" ELSE @]
    /\ UNCHANGED <<batchVars, pipeVars, profVars>>

EnterThinking ==
    /\ fed.run_left = 0
    /\ ~vad.in_thinking_mode
    /\ vad' = enter_thinking_mode(vad)
    /\ hist' = [hist EXCEPT !.phase = "off", !.thought = TRUE]
    /\ UNCHANGED <<vad_result, fed, batchVars, pipeVars, profVars>>

ExitThinking ==
    /\ fed.run_left = 0
    /\ vad.in_thinking_mode
    /\ vad' = exit_thinking_mode(vad)
    /\ UNCHANGED <<vad_result, hist, fed, batchVars, pipeVars, profVars>>

AdjustForMoreTime ==
    /\ fed.run_left = 0
    /\ fed.adjusts < MaxAdjust
    /\ vad' = adjust_for_more_time(vad)
    /\ fed' = [fed EXCEPT !.adjusts = @ + 1]
    /\ UNCHANGED <<vad_result, hist, batchVars, pipeVars, profVars>>

Reset ==
    /\ fed.run_left = 0
    /\ vad # reset(vad)
    /\ vad' = reset(vad)
    /\ hist' = [HistInit EXCEPT !.premature = hist.premature,
                                !.misordered = hist.misordered]
    /\ UNCHANGED <<vad_result, fed, batchVars, pipeVars, profVars>>

NextVAD ==
    \/ Frame
    \/ Burst
    \/ BurstNext
    \/ EnterThinking
    \/ ExitThinking
    \/ AdjustForMoreTime
    \/ Reset

SpecVAD == InitVAD /\ [][NextVAD]_vars

----------------------------------------------------------------------------
(* Claims about the detector *)

\* C1: a speech run of at least MIN_SPEECH_DURATION, with silence gaps that
\* stay within the active silence threshold, followed by silence exceeding
\* it, yields exactly one speech_start and one speech_end; during the run
\* and its gaps there is one speech_start and no speech_end.
C1_OneStartOneEnd ==
    /\ hist.phase = "run"  => hist.starts = 1 /\ hist.ends = 0
    /\ hist.phase = "tail" => hist.starts = 1 /\ hist.ends = 1

\* the closing silence of a run that had a gap has been reached
C1_Witness ==
    /\ hist.phase = "tail"
    /\ hist.gaps
    /\ vad_result = "speech_end"

\* C2: Recording outside thinking mode with less than MIN_SPEECH_DURATION of
\* speech, a silence frame never returns speech_end: it returns silence and
\* the detector stays Recording, however long the silence.
C2_NoEndBelowMinSpeech == ~hist.premature

\* a short blip followed by silence past the thinking-pause threshold
C2_Witness ==
    /\ vad.is_speaking
    /\ ~vad.in_thinking_mode
    /\ vad.total_speech_duration < MIN_SPEECH_DURATION
    /\ vad.silence_frames * frame_duration > vad.current_thinking_threshold
    /\ vad_result = "silence"

\* C11: at most one utterance is open: process_frame returns speech_start
\* only when no speech_start is open and speech_end only when one is, a
\* reset closing the open one; and an utterance is open exactly when the
\* detector is_speaking.
C11_AtMostOneUtteranceOpen ==
    /\ ~hist.misordered
    /\ hist.open = vad.is_speaking

\* a second speech_start, after the first utterance was closed by a speech_end
C11_Witness ==
    /\ hist.starts = 2
    /\ hist.ends = 1
    /\ hist.open
    /\ vad_result = "speech_start"

\* C18: thinking mode is toggled only by the commands: no frame handled
\* by process_frame changes in_thinking_mode, so once entered it stays in
\* force until an exit command.  (A step that feeds a frame is one that
\* changes what the source has delivered.)
C18_FramesLeaveThinkingMode ==
    [][(fed.singles # fed'.singles \/ fed.bursts # fed'.bursts
            \/ fed.run_left # fed'.run_left)
        => vad'.in_thinking_mode = vad.in_thinking_mode]_vars

\* C21: reset(), called in any reachable state, leaves the machine Idle
\* with speech_frames, silence_frames and the accumulated speech and
\* silence durations at zero, the smoothing buffer empty and thinking mode
\* off: the values VADDetector.__init__ gives these fields.
C21_ResetGivesConstructedValues ==
    [][Reset =>
        /\ vad'.is_speaking = VADDetector_init.is_speaking
        /\ vad'.speech_frames = VADDetector_init.speech_frames
        /\ vad'.silence_frames = VADDetector_init.silence_frames
        /\ vad'.total_speech_duration = VADDetector_init.total_speech_duration
        /\ vad'.total_silence_duration = VADDetector_init.total_silence_duration
        /\ vad'.ring_buffer = VADDetector_init.ring_buffer
        /\ vad'.in_thinking_mode = VADDetector_init.in_thinking_mode]_vars

\* reset() has been called after two bursts and no frame has followed it
C21_Witness ==
    /\ hist.phase = "init"
    /\ fed.bursts >= 2
    /\ vad.ring_buffer = <<>>
    /\ vad.total_silence_duration = 0

\* C31: Recording in thinking mode, a silence frame yields speech_end if and
\* only if the trailing silence run exceeds the active
\* max_silence_before_interrupt, and silence otherwise; the silence
\* threshold, the thinking-pause threshold and the minimum-speech guard
\* play no part.  (A frame the machine takes as silence is one that adds
\* one to silence_frames.)
C31_ThinkingModeEndsOnlyPastMaxSilence ==
    [][(/\ vad.is_speaking
        /\ vad.in_thinking_mode
        /\ vad'.silence_frames = vad.silence_frames + 1)
       => /\ vad_result' \in {"speech_end", "silence"}
          /\ vad_result' = "speech_end" <=>
                vad'.silence_frames * frame_duration > vad.current_max_silence
          /\ vad'.is_speaking = (vad_result' = "silence")]_vars

\* thinking mode ended an utterance that had less speech than the guard
\* asks for, at the first frame past the maximum silence
C31_Witness ==
    /\ vad_result = "speech_end"
    /\ vad.in_thinking_mode
    /\ ~vad.is_speaking
    /\ vad.total_speech_duration < MIN_SPEECH_DURATION
    /\ (vad.silence_frames - 1) * frame_duration <= vad.current_max_silence
    /\ vad.silence_frames * frame_duration > vad.current_max_silence

\* C32: Recording outside thinking mode with the minimum-speech guard
\* satisfied, a silence frame yields speech_end if and only if the run
\* strictly exceeds the active silence_threshold, a run equal to it
\* yielding silence; and when thinking mode was off for the whole run the
\* speech_end comes on the first such frame, so that the run of a finalized
\* utterance is at most one frame longer than silence_threshold.
C32_EndsOnFirstFramePastSilenceThreshold ==
    [][(/\ vad.is_speaking
        /\ ~vad.in_thinking_mode
        /\ SpeechLongEnough(vad)
        /\ vad'.silence_frames = vad.silence_frames + 1)
       => /\ vad_result' = "speech_end" <=>
                vad'.silence_frames * frame_duration > vad.current_silence_threshold
          /\ vad_result' # "speech_end" => vad_result' = "silence"
          /\ (vad_result' = "speech_end" /\ ~hist.thought) =>
                vad.silence_frames * frame_duration <= vad.current_silence_threshold]_vars

\* an utterance with speech enough was ended by the frame after the one at
\* which its silence run equalled the silence threshold
C32_Witness ==
    /\ vad_result = "speech_end"
    /\ ~vad.is_speaking
    /\ ~hist.thought
    /\ SpeechLongEnough(vad)
    /\ (vad.silence_frames - 1) * frame_duration = vad.current_silence_threshold

----------------------------------------------------------------------------
(* A session that goes on for ever: utterance after utterance, each a      *)
(* burst of speech followed by silence until the detector ends it, the     *)
(* capture loop resetting the detector at every speech_end; at some point  *)
(* the user asks for more time.                                            *)

\* the capture loop handles the next frame: process_frame, and reset() by
\* _finalize_recording when it returns speech_end
OngoingFrame ==
    /\ \E frame \in {"speech", "nonspeech"} :
          /\ \/ /\ fed.run_left > 0
                /\ frame = fed.run_kind
                /\ fed' = [fed EXCEPT !.run_left = @ - 1,
                                      !.run_kind = IF fed.run_left = 1
                                                   THEN "none" ELSE @]
             \/ /\ fed.run_left = 0
                /\ frame = IF vad.is_speaking THEN "nonspeech" ELSE "speech"
                /\ fed' = [fed EXCEPT !.run_left = BurstLen - 1,
                                      !.run_kind = frame]
          /\ LET p == process_frame(vad, frame)
             IN  /\ vad' = IF p.result = "speech_end" THEN reset(p.vad)
                           ELSE p.vad
                 /\ vad_result' = p.result
    /\ UNCHANGED <<hist, batchVars, pipeVars, profVars>>

\* "need more time": self.vad.adjust_for_more_time()
NeedMoreTime ==
    /\ fed.adjusts < MaxAdjust
    /\ vad' = adjust_for_more_time(vad)
    /\ fed' = [fed EXCEPT !.adjusts = @ + 1]
    /\ UNCHANGED <<vad_result, hist, batchVars, pipeVars, profVars>>

NextOngoing ==
    \/ OngoingFrame
    \/ NeedMoreTime

InitOngoing == VADStart /\ PipeIdle /\ BatchIdle /\ ProfileIdle

\* the stream keeps delivering frames and the capture loop keeps running
SpecOngoing == InitOngoing /\ [][NextOngoing]_vars /\ WF_vars(OngoingFrame)

\* the active thresholds are those of construction
ThresholdsAsConstructed ==
    /\ vad.current_silence_threshold = INITIAL_SILENCE_THRESHOLD
    /\ vad.current_thinking_threshold = THINKING_PAUSE_THRESHOLD
    /\ vad.current_max_silence = MAX_SILENCE_BEFORE_INTERRUPT

\* C19: the need-more-time adjustment is temporary: after
\* adjust_for_more_time has multiplied the three active thresholds by 1.5,
\* in a session that goes on processing utterances the thresholds
\* eventually return to their values before the adjustment.
C19_AdjustmentIsTemporary ==
    (fed.adjusts > 0) ~> ThresholdsAsConstructed

----------------------------------------------------------------------------
(* The profile manager alone: pauses of any kind are added to a default    *)
(* profile and the statistics updated at any learning rate, in any order.  *)

MaxPauses == 2

MaxUpdates == 2

\* pause durations: none, 0.2 s, 6 s
PauseDurations == {0, 200000, 6000000}

\* learning rates 0, 0.1, 0.5 and 1.0
LearningRates == {0, 1, 5, FullRate}

PausePattern ==
    [duration : PauseDurations, location : Locations, was_thinking_pause : BOOLEAN]

AddPause ==
    /\ pcalls.pauses < MaxPauses
    /\ \E pause \in PausePattern :
          user_profile' = add_pause(user_profile, pause)
    /\ pcalls' = [pcalls EXCEPT !.pauses = @ + 1]
    /\ UNCHANGED <<profile_file, vadVars, batchVars, pipeVars>>

UpdateStatistics ==
    /\ pcalls.updates < MaxUpdates
    /\ \E learning_rate \in LearningRates :
          user_profile' = update_statistics(user_profile, learning_rate)
    /\ pcalls' = [pcalls EXCEPT !.updates = @ + 1]
    /\ UNCHANGED <<profile_file, vadVars, batchVars, pipeVars>>

NextProfile ==
    \/ AddPause
    \/ UpdateStatistics

InitProfile == VADStart /\ PipeIdle /\ BatchIdle /\ ProfileIdle

SpecProfile == InitProfile /\ [][NextProfile]_vars

\* C12: for a profile that starts from the defaults, after any add_pause
\* and update_statistics calls at any learning rate, silence_threshold is
\* never below its floor of 1.0 s.
C12_SilenceThresholdNeverBelowFloor ==
    user_profile.silence_threshold >= SilenceFloor

\* the learned between-sentence average plus the margin is under the floor,
\* and the threshold is the floor
C12_Witness ==
    /\ pcalls.updates > 0
    /\ user_profile.pause_history # <<>>
    /\ user_profile.avg_between_sentence_pause + HalfSecond < SilenceFloor
    /\ user_profile.silence_threshold = SilenceFloor

\* C13: after every update_statistics that recomputes the thresholds, and
\* for the default profile, thinking_pause_threshold is at least
\* silence_threshold + 0.5 and max_silence_before_interrupt at least
\* thinking_pause_threshold + 1.0, so the three are strictly ordered.
C13_ThresholdsOrdered ==
    /\ user_profile.thinking_pause_threshold
           >= user_profile.silence_threshold + HalfSecond
    /\ user_profile.max_silence_before_interrupt
           >= user_profile.thinking_pause_threshold + OneSecond
    /\ user_profile.silence_threshold < user_profile.thinking_pause_threshold
    /\ user_profile.thinking_pause_threshold
           < user_profile.max_silence_before_interrupt

\* thresholds recomputed from a learned thinking average so small that both
\* margins decide
C13_Witness ==
    /\ pcalls.updates > 0
    /\ user_profile.pause_history # <<>>
    /\ TimesFourFifths(user_profile.avg_thinking_pause)
           < user_profile.silence_threshold
    /\ user_profile.thinking_pause_threshold
           = user_profile.silence_threshold + HalfSecond
    /\ user_profile.max_silence_before_interrupt
           = user_profile.thinking_pause_threshold + OneSecond

----------------------------------------------------------------------------
(* AudioStreamManager: start(), stop(), the capture loop and the           *)
(* transcription loop.  The threads of the k-th start() call are cap[k]    *)
(* and tr[k]; they take their steps in any order.                          *)

\* a detector that has the attribute
AttributePresent == TRUE

\* self.vad.is_calibrating: VADDetector.__init__ does not set the attribute
\* (the assignment is commented out), so reading it raises AttributeError
VADDetector_has_is_calibrating == FALSE

\* The capture loop slices the stream into frames of exactly frame_size
\* samples, so process_frame never sees a frame of the wrong size here.
PipeFrameKinds == {"speech", "nonspeech", "vad_error"}

\* What transcribe_bytes gives for an utterance: nothing, or a text that
\* holds no command, or one of a command vocabulary
Transcripts == {"None", "plain", "recalibrate", "more_time", "thinking", "continue"}

\* _finalize_recording; no is the number the utterance is known by
_finalize_recording(a, v, no) ==
    IF a.audio_buffer = <<>>
    THEN [asm |-> a, vad |-> v, put |-> FALSE]
    ELSE [asm |-> [a EXCEPT !.transcription_queue =
                                Append(@, [no |-> no, audio |-> a.audio_buffer]),
                            !.audio_buffer = <<>>,
                            !.is_listening = FALSE],
          vad |-> reset(v),
          put |-> TRUE]

\* the speech_start branch
OnSpeechStart(a, frame_no) ==
    [a EXCEPT !.is_listening = TRUE, !.audio_buffer = <<frame_no>>]

\* the speech_continue branch: the frame is buffered and the buffered
\* duration compared with the maximum
OnSpeechContinue(a, v, frame_no, no) ==
    IF ~a.is_listening THEN [asm |-> a, vad |-> v, put |-> FALSE]
    ELSE LET b == [a EXCEPT !.audio_buffer = Append(@, frame_no)]
         IN  IF Len(b.audio_buffer) * frame_duration > MAX_RECORDING_DURATION
             THEN _finalize_recording(b, v, no)
             ELSE [asm |-> b, vad |-> v, put |-> FALSE]

\* a frame of silence is left out of the utterance
SilenceNotBuffered(a, v, frame_no) == [asm |-> a, vad |-> v, put |-> FALSE]

\* the silence branch: the frame is buffered
OnSilence(a, v, frame_no) ==
    IF ~a.is_listening THEN [asm |-> a, vad |-> v, put |-> FALSE]
    ELSE [asm |-> [a EXCEPT !.audio_buffer = Append(@, frame_no)],
          vad |-> v, put |-> FALSE]

\* One frame in the capture loop: process_frame, then the branch on its
\* result
capture_frame(a, v0, frame_no, frame, no) ==
    LET p == process_frame(v0, frame)
        v == p.vad
        c == CASE p.result = "speech_start" ->
                    [asm |-> OnSpeechStart(a, frame_no), vad |-> v, put |-> FALSE]
               [] p.result = "speech_continue" ->
                    OnSpeechContinue(a, v, frame_no, no)
               [] p.result = "speech_end" ->
                    IF a.is_listening /\ Len(a.audio_buffer) > 0
                    THEN _finalize_recording(a, v, no)
                    ELSE [asm |-> a, vad |-> v, put |-> FALSE]
               [] p.result = "silence" ->
                    OnSilence(a, v, frame_no)
               [] OTHER -> [asm |-> a, vad |-> v, put |-> FALSE]
    IN  [asm |-> c.asm, vad |-> c.vad, put |-> c.put, result |-> p.result]

\* The audio source hands over its next frame: the next one of the burst
\* under way, or the first one of a new burst
SourceBurst(frame, kinds, maxBursts, burstLen) ==
    \/ /\ fed.run_left > 0
       /\ frame = fed.run_kind
       /\ fed' = [fed EXCEPT !.run_left = @ - 1,
                             !.run_kind = IF fed.run_left = 1 THEN "none" ELSE @]
    \/ /\ fed.run_left = 0
       /\ fed.bursts < maxBursts
       /\ frame \in kinds
       /\ fed' = [fed EXCEPT !.bursts = @ + 1,
                             !.run_left = burstLen - 1,
                             !.run_kind = frame]

\* or a single frame of any kind, between bursts
SourceSingle ==
    /\ fed.run_left = 0
    /\ fed.singles < MaxSingles
    /\ fed' = [fed EXCEPT !.singles = @ + 1]

\* the stream has a frame to read
SourceHasFrame == fed.run_left > 0 \/ fed.bursts < PipeMaxBursts

\* frame = temp_buffer[:vad_frame_bytes] is handled
Captured(frame) ==
    LET c == capture_frame(asm, vad, phist.frames + 1, frame, phist.finalized + 1)
    IN  /\ c.put => ~queue_full(asm.transcription_queue)
        /\ asm' = c.asm
        /\ vad' = c.vad
        /\ vad_result' = c.result
        /\ phist' = [phist EXCEPT !.frames = @ + 1,
                                  !.finalized = IF c.put THEN @ + 1 ELSE @]

\* start(), lines 125-153: the stream is opened, is_running set and the two
\* threads started
StartSpawn ==
    /\ main.pc = "idle"
    /\ main.starts < MaxStarts
    /\ ~asm.is_running
    /\ asm' = [asm EXCEPT !.is_running = TRUE, !.stream = "open"]
    /\ cap' = [cap EXCEPT ![main.starts + 1] = "loop"]
    /\ tr' = [tr EXCEPT ![main.starts + 1].pc = "loop"]
    /\ main' = [pc |-> "started", starts |-> main.starts + 1]
    /\ UNCHANGED <<phist, vadVars, batchVars, profVars>>

\* start(), lines 155-163: if self.vad.is_calibrating; the AttributeError is
\* caught, is_running cleared and the exception raised to the caller
StartLog ==
    /\ main.pc = "started"
    /\ asm' = IF VADDetector_has_is_calibrating THEN asm
              ELSE [asm EXCEPT !.is_running = FALSE]
    /\ main' = [main EXCEPT !.pc = "idle"]
    /\ UNCHANGED <<cap, tr, phist, vadVars, batchVars, profVars>>

\* stop(): is_running cleared, the profile saved, the joins give up after
\* 2 s, the stream is closed
Stop ==
    /\ main.pc = "idle"
    /\ asm.stream = "open"
    /\ asm' = [asm EXCEPT !.is_running = FALSE, !.stream = "None"]
    /\ profile_file' = save_profile(user_profile)
    /\ UNCHANGED <<cap, tr, main, phist, vadVars, batchVars, user_profile, pcalls>>

\* _capture_loop: while self.is_running, the next frame of the stream is
\* cut off and handled.  (The loop reads the stream 1024 samples at a time,
\* two or three frames, and looks at is_running before each read; here it
\* looks before each frame.)  The running pipeline is fed bursts.
CaptureFrame(k) ==
    /\ cap[k] = "loop"
    /\ asm.is_running
    /\ \E frame \in PipeFrameKinds :
          /\ SourceBurst(frame, {"speech", "nonspeech"}, PipeMaxBursts, PipeBurstLen)
          /\ Captured(frame)
    /\ UNCHANGED <<cap, tr, main, hist, batchVars, profVars>>

\* the loop puts the open utterance on the queue before it ends
CaptureExitFinalizes(k) ==
    /\ cap[k] = "loop"
    /\ ~asm.is_running
    /\ cap' = [cap EXCEPT ![k] = "ended"]
    /\ LET f == _finalize_recording(asm, vad, phist.finalized + 1)
       IN  /\ asm' = f.asm
           /\ vad' = f.vad
           /\ phist' = [phist EXCEPT !.finalized = IF f.put THEN @ + 1 ELSE @]
    /\ UNCHANGED <<tr, main, vad_result, hist, fed, batchVars, profVars>>

\* _capture_loop: is_running is found cleared
CaptureExit(k) ==
    /\ cap[k] = "loop"
    /\ ~asm.is_running
    /\ cap' = [cap EXCEPT ![k] = "ended"]
    /\ UNCHANGED <<asm, tr, main, phist, vadVars, batchVars, profVars>>

\* _transcription_loop: while self.is_running
TranscriptionLoop(k) ==
    /\ tr[k].pc = "loop"
    /\ tr' = [tr EXCEPT ![k].pc = IF asm.is_running THEN "get" ELSE "ended"]
    /\ UNCHANGED <<asm, cap, main, phist, vadVars, batchVars, profVars>>

\* audio_bytes = self.transcription_queue.get(timeout=1.0); then
\* self.transcriber.transcribe_bytes(audio_bytes) is called
TranscriptionGet(k) ==
    /\ tr[k].pc = "get"
    /\ asm.transcription_queue # <<>>
    /\ LET item == QueueGet(asm.transcription_queue)
       IN  /\ tr' = [tr EXCEPT ![k] = [pc |-> "transcribe", audio_bytes |-> item]]
           /\ asm' = [asm EXCEPT !.transcription_queue = QueueRest(@, item)]
           /\ phist' = [phist EXCEPT !.handed = Append(@, item.no)]
    /\ UNCHANGED <<cap, main, vadVars, batchVars, profVars>>

\* a get without a timeout: on an empty queue it never returns
GetWithoutTimeout(k) ==
    /\ tr[k].pc = "get"
    /\ FALSE
    /\ UNCHANGED vars

\* queue.Empty after the timeout: continue
TranscriptionEmpty(k) ==
    /\ tr[k].pc = "get"
    /\ asm.transcription_queue = <<>>
    /\ tr' = [tr EXCEPT ![k].pc = "loop"]
    /\ UNCHANGED <<asm, cap, main, phist, vadVars, batchVars, profVars>>

\* The command a text holds is applied (lines 345-364)
Commanded(v, text) ==
    CASE text = "recalibrate" -> VADDetector_init
      [] text = "more_time"   -> adjust_for_more_time(v)
      [] text = "thinking"    -> enter_thinking_mode(v)
      [] text = "continue"    -> exit_thinking_mode(v)
      [] OTHER                -> v

\* the item is put back on the queue for another try
PutBack(q, item) == Append(q, item)

\* the queue after an iteration that took item from it: lines 282-377 put
\* nothing on it
after_call(q, item) == q

\* POST_CALIBRATION_LEARNING_RATE = 0.1
POST_CALIBRATION_LEARNING_RATE == 1

\* what end_speech_segment(text) returns: None (here 0) for a segment under
\* 0.5 s, or the segment's words per minute
SegmentWpm == {0, 200}

\* Lines 290-328 with a detector that has is_calibrating, False since the
\* calibration code is commented out: the speaking rate and the pause
\* statistics are updated at the post-calibration rate, and a profile not
\* yet calibrated is marked calibrated and saved
learn(profile, wpm) ==
    LET rated   == IF wpm # 0
                   THEN update_speaking_rate(profile, wpm,
                                             POST_CALIBRATION_LEARNING_RATE)
                   ELSE profile
        updated == update_statistics(rated, POST_CALIBRATION_LEARNING_RATE)
    IN  IF ~updated.is_calibrated
        THEN [profile |-> complete_calibration(updated), saved |-> TRUE]
        ELSE [profile |-> updated, saved |-> FALSE]

\* transcribe_bytes returns and the rest of the iteration runs: with no
\* text a warning is logged; with a text the learning rate is chosen by
\* self.vad.is_calibrating (lines 291-308), then the command is applied and
\* self.on_transcription(text) called (lines 345-371); an exception ends
\* the iteration (lines 375-377)
TranscriptionDone(k) ==
    /\ tr[k].pc = "transcribe"
    /\ tr' = [tr EXCEPT ![k] = [pc |-> "loop", audio_bytes |-> NoItem]]
    /\ asm' = [asm EXCEPT !.transcription_queue = after_call(@, tr[k].audio_bytes)]
    /\ \E text \in Transcripts :
          IF text = "None"
          THEN UNCHANGED <<phist, vad, cb, bhist, user_profile, profile_file>>
          ELSE IF ~VADDetector_has_is_calibrating
          THEN /\ phist' = [phist EXCEPT !.texted = @ + 1]
               /\ UNCHANGED <<vad, cb, bhist, user_profile, profile_file>>
          ELSE /\ cb.pc = "idle"
               /\ \E wpm \in SegmentWpm :
                     LET l == learn(user_profile, wpm)
                     IN  /\ user_profile' = IF text = "recalibrate"
                                            THEN reset_calibration(l.profile)
                                            ELSE l.profile
                         /\ profile_file' = IF l.saved THEN save_profile(l.profile)
                                            ELSE profile_file
               /\ vad' = Commanded(vad, text)
               /\ cb' = [pc |-> "append", text |-> <<text>>, id |-> bhist.calls + 1]
               /\ bhist' = [bhist EXCEPT !.calls = @ + 1,
                                         !.said = Append(@, <<text>>)]
               /\ phist' = [phist EXCEPT !.texted = @ + 1, !.callbacks = @ + 1]
    /\ UNCHANGED <<cap, main, vad_result, hist, fed,
                   now, cm, buffer_lock, sender, ai, pcalls>>

NextPipeline ==
    \/ StartSpawn
    \/ StartLog
    \/ Stop
    \/ \E k \in Starts : CaptureFrame(k)
    \/ \E k \in Starts : CaptureExit(k)
    \/ \E k \in Starts : TranscriptionLoop(k)
    \/ \E k \in Starts : TranscriptionGet(k)
    \/ \E k \in Starts : TranscriptionEmpty(k)
    \/ \E k \in Starts : TranscriptionDone(k)

\* the objects as constructed, nothing started
InitPipeline == VADStart /\ PipeIdle /\ BatchIdle /\ ProfileIdle

SpecPipeline == InitPipeline /\ [][NextPipeline]_vars

----------------------------------------------------------------------------
(* The capture side during one long stretch without speech: the source     *)
(* delivers single frames and one burst of LongBurstLen frames classified  *)
(* not speech.                                                             *)

\* _capture_loop, as CaptureFrame, fed single frames and the long burst
CaptureLongFrame(k) ==
    /\ cap[k] = "loop"
    /\ asm.is_running
    /\ \E frame \in PipeFrameKinds :
          /\ \/ SourceBurst(frame, {"nonspeech"}, LongMaxBursts, LongBurstLen)
             \/ SourceSingle
          /\ Captured(frame)
    /\ UNCHANGED <<cap, tr, main, hist, batchVars, profVars>>

NextCaptureLong ==
    \/ StartSpawn
    \/ StartLog
    \/ \E k \in Starts : CaptureLongFrame(k)
    \/ \E k \in Starts : CaptureExit(k)

SpecCaptureLong == InitPipeline /\ [][NextCaptureLong]_vars

----------------------------------------------------------------------------
(* Claims about the pipeline *)

\* C7: utterances are handed to the transcriber in the order they were
\* finalized, and no two are with the transcriber at the same time.
C7_TranscribedOneAtATimeInOrder ==
    /\ \A i \in 1..Len(phist.handed) : phist.handed[i] = i
    /\ Cardinality({k \in Starts : tr[k].pc = "transcribe"}) <= 1

\* C9: every utterance transcribed to a non-empty text has had
\* on_transcription called for it once.
C9_EveryTextReachesCallback == phist.callbacks = phist.texted

\* C10: the buffered duration of the open utterance exceeds
\* MAX_RECORDING_DURATION by at most one frame.
C10_BufferWithinMaxPlusOneFrame ==
    Len(asm.audio_buffer) * frame_duration <= MAX_RECORDING_DURATION + frame_duration

\* C38: for any sequence of start() and stop() calls at most one capture
\* loop and at most one transcription loop are active at any time, so the
\* transcription queue has a single consumer; and a start() call made while
\* the manager is running starts no thread.
C38_OneLoopOfEachKind ==
    /\ [](Cardinality({k \in Starts : cap[k] = "loop"}) <= 1)
    /\ [](Cardinality({k \in Starts : tr[k].pc \notin {"none", "ended"}}) <= 1)
    /\ [][asm.is_running => cap' = cap \/ \A k \in Starts : cap[k] = "none" => cap'[k] = "none"]_vars

----------------------------------------------------------------------------
(* One session from start to stop: ConversationManager.start(), the four   *)
(* loops at work, ConversationManager.stop().  Every thread that can take  *)
(* a step eventually takes it, time passes, and calls in flight return.    *)

ShutMaxBursts == 2

ShutTicks == 10

\* ConversationManager.start(), lines 297-313: is_running is set and the
\* batch sender and response threads are started; audio_manager.start()
\* follows as StartSpawn and StartLog
StartCM ==
    /\ main.pc = "idle"
    /\ main.starts = 0
    /\ ~cm.is_running
    /\ cm' = [cm EXCEPT !.is_running = TRUE]
    /\ sender' = [sender EXCEPT !.pc = "top"]
    /\ ai' = [ai EXCEPT !.pc = "get"]
    /\ UNCHANGED <<now, buffer_lock, cb, bhist, vadVars, pipeVars, profVars>>

\* ConversationManager.stop(): is_running cleared, then audio_manager.stop()
\* (its is_running cleared, the profile saved, the stream closed); the
\* joins give up after 2 s.  The session is over.
StopCM ==
    /\ main.pc = "idle"
    /\ cm' = [cm EXCEPT !.is_running = FALSE]
    /\ asm' = [asm EXCEPT !.is_running = FALSE, !.stream = "None"]
    /\ profile_file' = save_profile(user_profile)
    /\ main' = [main EXCEPT !.pc = "stopped"]
    /\ UNCHANGED <<now, buffer_lock, cb, sender, ai, bhist, cap, tr, phist,
                   vadVars, user_profile, pcalls>>

\* audio_manager.start() is called once, by ConversationManager.start()
ShutdownStartSpawn ==
    /\ cm.is_running
    /\ main.starts = 0
    /\ StartSpawn

\* the batcher's threads are at rest: asleep or waiting, or ended
BatcherAtRest ==
    /\ cb.pc = "idle"
    /\ sender.pc \in {"sleep", "stopped"}
    /\ ai.pc \in {"get", "stopped"}

\* _capture_loop, as CaptureFrame, fed bursts of speech and of silence in
\* turn; the frames arrive while the batcher's threads are at rest
SessionCaptureFrame(k, maxBursts) ==
    /\ cap[k] = "loop"
    /\ asm.is_running
    /\ BatcherAtRest
    /\ \E frame \in PipeFrameKinds :
          /\ SourceBurst(frame,
                         IF fed.bursts % 2 = 0 THEN {"speech"} ELSE {"nonspeech"},
                         maxBursts, PipeBurstLen)
          /\ Captured(frame)
    /\ UNCHANGED <<cap, tr, main, hist, batchVars, profVars>>

\* _on_transcription_received is called, after the audio
SessionCall(maxBursts) ==
    /\ cm.is_running
    /\ fed.run_left = 0
    /\ fed.bursts = maxBursts \/ (main.starts > 0 /\ ~asm.is_running)
    /\ CallbackCall

\* one utterance's worth of audio
ShutdownCaptureFrame(k) == SessionCaptureFrame(k, ShutMaxBursts)

\* and one text delivered
ShutdownCall ==
    /\ bhist.calls = 0
    /\ SessionCall(ShutMaxBursts)

\* time.sleep(0.5) of the batch sender returns: the clock is at the wake-up
\* time.  Before stop() the session lasts ShutTicks at most.
SleepOver ==
    /\ sender.pc = "sleep"
    /\ now < sender.wake
    /\ sender.wake <= StartTime + ShutTicks \/ ~cm.is_running
    /\ now' = sender.wake
    /\ UNCHANGED <<cm, buffer_lock, cb, sender, ai, bhist, vadVars, pipeVars,
                   profVars>>

NextShutdown ==
    \/ StartCM
    \/ ShutdownStartSpawn
    \/ StartLog
    \/ StopCM
    \/ \E k \in Starts : ShutdownCaptureFrame(k)
    \/ \E k \in Starts : CaptureExit(k)
    \/ \E k \in Starts : TranscriptionLoop(k)
    \/ \E k \in Starts : TranscriptionGet(k)
    \/ \E k \in Starts : TranscriptionEmpty(k)
    \/ \E k \in Starts : TranscriptionDone(k)
    \/ ShutdownCall
    \/ CallbackAppend
    \/ CallbackStamp
    \/ SleepOver
    \/ SenderTop
    \/ SenderReadClock
    \/ SenderReadLast
    \/ SenderLockCheck
    \/ SenderPut
    \/ SenderClear
    \/ AIGet
    \/ AIDone

InitShutdown == VADStart /\ PipeIdle /\ BatchIdle /\ ProfileIdle

\* the threads are scheduled, sleeps and calls in flight return; what the
\* environment does (start, stop, audio, texts) is not forced
FairShutdown ==
    /\ WF_vars(StartLog)
    /\ \A k \in Starts : WF_vars(CaptureExit(k))
    /\ \A k \in Starts : WF_vars(TranscriptionLoop(k))
    /\ \A k \in Starts : WF_vars(TranscriptionGet(k))
    /\ \A k \in Starts : WF_vars(TranscriptionEmpty(k))
    /\ \A k \in Starts : WF_vars(TranscriptionDone(k))
    /\ WF_vars(CallbackAppend)
    /\ WF_vars(CallbackStamp)
    /\ WF_vars(SleepOver)
    /\ WF_vars(SenderTop)
    /\ WF_vars(SenderReadClock)
    /\ WF_vars(SenderReadLast)
    /\ WF_vars(SenderLockCheck)
    /\ WF_vars(SenderPut)
    /\ WF_vars(SenderClear)
    /\ WF_vars(AIGet)
    /\ WF_vars(AIDone)

SpecShutdown == InitShutdown /\ [][NextShutdown]_vars /\ FairShutdown

\* every loop that was started has ended
AllLoopsEnded ==
    /\ \A k \in Starts : cap[k] \in {"none", "ended"}
    /\ \A k \in Starts : tr[k].pc \in {"none", "ended"}
    /\ sender.pc = "stopped"
    /\ ai.pc = "stopped"

\* C15: cooperative shutdown terminates: once stop() has cleared the
\* running flags, every one of the four loops (capture, transcription,
\* batch sender, response) ends, the calls in flight returning and a worker
\* idle on an empty queue seeing the flag after its bounded wait.
C15_ShutdownTerminates ==
    (main.pc = "stopped") ~> AllLoopsEnded

\* stop() has returned while calls were in flight, and all loops ended
C15_Witness ==
    /\ main.pc = "stopped"
    /\ AllLoopsEnded
    /\ phist.handed # <<>>
    /\ bhist.dispatched # <<>>

\* C36: shutdown does not flush pending work.  After stop(), a capture loop
\* that has seen the cleared flag finalizes nothing, so the open utterance
\* stays in the buffer; a transcription loop that has seen it takes nothing
\* from the queue; the batch sender that has seen it flushes nothing from
\* the batch buffer; the response loop that has seen it takes no turn from
\* the response queue.  What is pending may only be added to.
C36_NoFlushOnShutdown ==
    [][main'.pc = "stopped" =>
        /\ (\A k \in Starts : cap'[k] \in {"none", "ended"}) =>
              /\ phist'.finalized = phist.finalized
              /\ asm'.audio_buffer = asm.audio_buffer
        /\ (\A k \in Starts : tr'[k].pc \in {"none", "ended"}) =>
              /\ phist'.handed = phist.handed
              /\ phist'.texted = phist.texted
              /\ IsPrefix(asm.transcription_queue, asm'.transcription_queue)
        /\ sender'.pc = "stopped" =>
              /\ bhist'.enqueued = bhist.enqueued
              /\ IsPrefix(cm.utterance_buffer, cm'.utterance_buffer)
        /\ ai'.pc = "stopped" =>
              /\ bhist'.dispatched = bhist.dispatched
              /\ IsPrefix(cm.ai_response_queue, cm'.ai_response_queue)]_vars

\* the session is over and every loop has ended, with an utterance still
\* open in the capture buffer and a fragment still in the batch buffer
C36_Witness ==
    /\ main.pc = "stopped"
    /\ AllLoopsEnded
    /\ main.starts > 0
    /\ asm.audio_buffer # <<>>
    /\ cm.utterance_buffer # <<>>
    /\ bhist.enqueued = <<>>

----------------------------------------------------------------------------
(* A session in which external calls may fail: two utterances' worth of    *)
(* audio, then texts delivered to the batcher.  transcribe_bytes returns a *)
(* text, returns nothing or raises; generate_response returns or raises.   *)

FailMaxBursts == 4

FailCaptureFrame(k) == SessionCaptureFrame(k, FailMaxBursts)

FailCall == SessionCall(FailMaxBursts)

NextFailures ==
    \/ StartCM
    \/ ShutdownStartSpawn
    \/ StartLog
    \/ \E k \in Starts : FailCaptureFrame(k)
    \/ \E k \in Starts : CaptureExit(k)
    \/ \E k \in Starts : TranscriptionLoop(k)
    \/ \E k \in Starts : TranscriptionGet(k)
    \/ \E k \in Starts : TranscriptionEmpty(k)
    \/ \E k \in Starts : TranscriptionDone(k)
    \/ FailCall
    \/ CallbackAppend
    \/ CallbackStamp
    \/ SleepOver
    \/ SenderTop
    \/ SenderReadClock
    \/ SenderReadLast
    \/ SenderLockCheck
    \/ SenderPut
    \/ SenderClear
    \/ AIGet
    \/ AIDone

InitFailures == VADStart /\ PipeIdle /\ BatchIdle /\ ProfileIdle

SpecFailures == InitFailures /\ [][NextFailures]_vars

NoDuplicates(seq) == \A i, j \in 1..Len(seq) : seq[i] = seq[j] => i = j

----------------------------------------------------------------------------
(* The capture loops with _finalize_recording at a finer grain: the        *)
(* utterance is put on the queue and the buffer cleared in the step that   *)
(* handles the frame (lines 258-267), self.vad.reset() (line 268) is a     *)
(* step of its own.  cap[k] = "reset" says that loop k is between the two. *)

\* _capture_loop handles a frame; when it finalizes, the reset is still to
\* come
FinalizeCaptureFrame(k) ==
    /\ cap[k] = "loop"
    /\ asm.is_running
    /\ \E frame \in PipeFrameKinds :
          /\ SourceBurst(frame,
                         IF fed.bursts % 2 = 0 THEN {"speech"} ELSE {"nonspeech"},
                         ShutMaxBursts, PipeBurstLen)
          /\ LET p == process_frame(vad, frame)
                 c == capture_frame(asm, vad, phist.frames + 1, frame,
                                    phist.finalized + 1)
             IN  /\ c.put => ~queue_full(asm.transcription_queue)
                 /\ asm' = c.asm
                 /\ vad' = IF c.put THEN p.vad ELSE c.vad
                 /\ vad_result' = c.result
                 /\ cap' = IF c.put THEN [cap EXCEPT ![k] = "reset"] ELSE cap
                 /\ phist' = [phist EXCEPT !.frames = @ + 1,
                                           !.finalized = IF c.put THEN @ + 1 ELSE @]
    /\ UNCHANGED <<tr, main, hist, batchVars, profVars>>

\* _finalize_recording: self.vad.reset()
FinalizeReset(k) ==
    /\ cap[k] = "reset"
    /\ vad' = reset(vad)
    /\ cap' = [cap EXCEPT ![k] = "loop"]
    /\ UNCHANGED <<vad_result, hist, fed, asm, tr, main, phist, batchVars,
                   profVars>>

NextFinalize ==
    \/ StartSpawn
    \/ StartLog
    \/ \E k \in Starts : FinalizeCaptureFrame(k)
    \/ \E k \in Starts : FinalizeReset(k)
    \/ \E k \in Starts : CaptureExit(k)

InitFinalize == VADStart /\ PipeIdle /\ BatchIdle /\ ProfileIdle

SpecFinalize == InitFinalize /\ [][NextFinalize]_vars

\* the machine is Idle with its counters at zero
IdleAndZero ==
    /\ ~vad.is_speaking
    /\ vad.speech_frames = 0
    /\ vad.silence_frames = 0
    /\ vad.total_speech_duration = 0

\* C20: after every finalization in the pipeline, before the next frame is
\* processed, the segmentation machine is Idle and its speech-frame
\* counter, silence-frame counter and accumulated speech duration are zero:
\* no frame is processed between a finalization and the reset that belongs
\* to it.
C20_IdleAndZeroBeforeNextFrame ==
    [][(phist'.frames # phist.frames /\ \E k \in Starts : cap[k] = "reset")
        => IdleAndZero]_vars

\* C14: the capture loop never waits on a slow consumer: whenever the
\* running flag is set and the source has a frame, a capture loop can
\* handle it (classify it, update the segmentation state, enqueue a
\* finalized utterance), whatever the transcription and response threads
\* are doing; and a capture step never moves a transcription or response
\* thread, which alone call the two collaborators.
C14_CaptureNeverWaitsOnConsumer ==
    /\ [](\A k \in Starts :
            (cap[k] = "loop" /\ asm.is_running /\ SourceHasFrame)
                => ENABLED CaptureFrame(k))
    /\ [][\A k \in Starts : CaptureFrame(k) => UNCHANGED <<tr, ai, sender>>]_vars

\* a second utterance was enqueued by a capture loop while the
\* transcription of the first was in flight
C14_Witness ==
    /\ asm.is_running
    /\ vad_result = "speech_end"
    /\ phist.finalized = 2
    /\ \E k \in Starts : tr[k].pc = "transcribe" /\ tr[k].audio_bytes.no = 1
    /\ Len(asm.transcription_queue) = 1

----------------------------------------------------------------------------
(* A session seen from the transcription loop: what handling one text      *)
(* does to the profile, the detector, the speaking-rate calculator and the *)
(* calibration manager (lines 286-377), with the profile loaded from the   *)
(* file the profile path holds, a few frames from the capture loop and the *)
(* clock.  Times are in tenths of a second.                                *)

\* MIN_CALIBRATION_WORDS = 70
MIN_CALIBRATION_WORDS == 70

\* CALIBRATION_DURATION = 60.0
CALIBRATION_DURATION == 600

\* CALIBRATION_LEARNING_RATE = 1.0
CALIBRATION_LEARNING_RATE == 10

\* the session goes on for this long, in steps of HalfWindow
SessionLength == 900

HalfWindow == 300

\* frames the capture loop handles in the session
MaxSessionFrames == 3

\* len(text.split()): the texts of the session are sentences of 35 words,
\* with or without a command phrase among them
word_count(text) == IF text = "None" THEN 0 ELSE 35

\* time.time() - self.speech_start_time: below 0.5 s, or 14 s
SegmentDurations == {3, 140}

\* duration < 0.5
MinSegment == 5

\* start_speech_segment()
start_speech_segment(calc) == [calc EXCEPT !.speech_start_time = "set"]

\* end_speech_segment(text): wpm is 0 for None
end_speech_segment(calc, text, duration) ==
    IF calc.speech_start_time = "None" THEN [calc |-> calc, wpm |-> 0]
    ELSE LET c == [calc EXCEPT !.speech_start_time = "None"]
         IN  IF duration < MinSegment \/ word_count(text) = 0
             THEN [calc |-> c, wpm |-> 0]
             ELSE [calc |-> [c EXCEPT !.total_words = @ + word_count(text),
                                      !.total_speech_time = @ + duration],
                   wpm  |-> (word_count(text) * 600) \div duration]

\* SpeakingRateCalculator.reset()
speaking_rate_reset(calc) == SpeakingRateCalculator_init

\* self.vad.is_calibrating as the transcription loop reads it: the lookup
\* raises AttributeError; a detector that had the attribute would have it
\* False, the calibration code being commented out
is_calibrating(v) ==
    IF VADDetector_has_is_calibrating THEN "False" ELSE "AttributeError"

\* One text in the transcription loop, lines 286-377: the speaking-rate
\* segment is closed (line 291), the learning rate is chosen by
\* self.vad.is_calibrating (lines 293-307) and, if that does not raise, the
\* profile is updated, calibration completed, the style analysis started
\* once, and the command applied.  An exception ends the iteration with
\* what was done before it.
handle_text(a, v, profile, file, text, duration) ==
    LET e  == end_speech_segment(a.speaking_rate_calc, text, duration)
        a1 == [a EXCEPT !.speaking_rate_calc = e.calc]
    IN  IF is_calibrating(v) = "AttributeError"
        THEN [asm |-> a1, vad |-> v, profile |-> profile, file |-> file,
              requested |-> FALSE, raised |-> TRUE]
        ELSE
        LET l       == learn(profile, e.wpm)
            file1   == IF l.saved THEN save_profile(l.profile) ELSE file
            request == /\ l.profile.is_calibrated
                       /\ ~a1.style_analysis_started
                       /\ Len(a1.calibration_transcripts) > 0
            a2      == IF request THEN [a1 EXCEPT !.style_analysis_started = TRUE]
                       ELSE a1
        IN  [asm |-> IF text = "recalibrate"
                     THEN [a2 EXCEPT !.speaking_rate_calc = speaking_rate_reset(@)]
                     ELSE a2,
             vad |-> Commanded(v, text),
             profile |-> IF text = "recalibrate" THEN reset_calibration(l.profile)
                         ELSE l.profile,
             file |-> file1, requested |-> request, raised |-> FALSE]

\* a profile as an earlier session may have left it: calibrated, with what
\* it learned
LearnedProfile ==
    [UserSpeechProfile_default EXCEPT
        !.is_calibrated = TRUE,
        !.calibration_time = 620,
        !.total_words_spoken = 90,
        !.avg_between_sentence_pause = 1200000,
        !.silence_threshold = 1700000,
        !.thinking_pause_threshold = 2200000,
        !.max_silence_before_interrupt = 3200000,
        !.style_summary = "casual",
        !.style_last_updated = "2025-01-01",
        !.pause_history =
            << [duration |-> 200000, location |-> "within_sentence",
                was_thinking_pause |-> FALSE],
               [duration |-> 6000000, location |-> "between_sentences",
                was_thinking_pause |-> TRUE] >>]

\* What the profile path may hold when the manager is constructed
SessionFiles == {<<>>, <<unreadable_file>>, save_profile(LearnedProfile)}

\* The capture loop handles a frame; on speech_start it opens a
\* speaking-rate segment (line 219)
SessionFrame ==
    /\ asm.is_running
    /\ fed.singles < MaxSessionFrames
    /\ \E frame \in PipeFrameKinds :
          LET c == capture_frame(asm, vad, 0, frame, 0)
          IN  /\ vad' = c.vad
              /\ vad_result' = c.result
              /\ asm' = IF c.result = "speech_start"
                        THEN [c.asm EXCEPT !.speaking_rate_calc =
                                                start_speech_segment(@)]
                        ELSE c.asm
    /\ fed' = [fed EXCEPT !.singles = @ + 1]
    /\ pcalls' = [pcalls EXCEPT !.last = "None"]
    /\ UNCHANGED <<hist, cap, tr, main, phist, batchVars, user_profile,
                   profile_file>>

\* time passes
SessionTick ==
    /\ now < StartTime + SessionLength
    /\ now' = now + HalfWindow
    /\ pcalls' = [pcalls EXCEPT !.last = "None"]
    /\ UNCHANGED <<vadVars, asm, cap, tr, main, phist, cm, buffer_lock, cb,
                   sender, ai, bhist, user_profile, profile_file>>

\* the transcription loop handles a text
SessionText ==
    /\ asm.is_running
    /\ \E text \in Transcripts \ {"None"}, duration \in SegmentDurations :
        LET h == handle_text(asm, vad, user_profile, profile_file, text, duration)
        IN  /\ asm' = h.asm
            /\ vad' = h.vad
            /\ user_profile' = h.profile
            /\ profile_file' = h.file
            /\ pcalls' = [pcalls EXCEPT
                  !.texts = IF @ < 2 THEN @ + 1 ELSE @,
                  !.words = IF @ + word_count(text) > MIN_CALIBRATION_WORDS
                            THEN MIN_CALIBRATION_WORDS ELSE @ + word_count(text),
                  !.requests = IF h.requested THEN @ + 1 ELSE @,
                  !.last = text]
            /\ UNCHANGED <<vad_result, hist, fed, cap, tr, main, phist, batchVars>>

NextSession ==
    \/ SessionFrame
    \/ SessionTick
    \/ SessionText

\* AudioStreamManager.__init__ has loaded the profile from its file and
\* start() has opened the stream and started the two threads
InitSession ==
    /\ VADStart /\ BatchIdle
    /\ asm = [AudioStreamManager_init EXCEPT !.is_running = TRUE,
                                             !.stream = "open"]
    /\ cap = [k \in Starts |-> IF k = 1 THEN "loop" ELSE "none"]
    /\ tr = [k \in Starts |-> [pc |-> IF k = 1 THEN "loop" ELSE "none",
                                audio_bytes |-> NoItem]]
    /\ main = [pc |-> "started", starts |-> 1]
    /\ phist = [frames |-> 0, finalized |-> 0, handed |-> <<>>, texted |-> 0,
                callbacks |-> 0, expected |-> <<>>]
    /\ profile_file \in SessionFiles
    /\ user_profile = load_profile(profile_file, DEFAULT_USER_ID)
    /\ pcalls = PcallsInit

SpecSession == InitSession /\ [][NextSession]_vars

----------------------------------------------------------------------------
(* Claims about recalibration and the calibration window *)

\* C22: handling a text that holds a recalibrate phrase, at any point of a
\* session, makes is_calibrated false, calibration_time 0,
\* total_words_spoken 0 and pause_history empty, and replaces the detector
\* by a newly constructed one.
C22_RecalibrateResets ==
    [][(SessionText /\ pcalls'.last = "recalibrate") =>
        /\ ~user_profile'.is_calibrated
        /\ user_profile'.calibration_time = 0
        /\ user_profile'.total_words_spoken = 0
        /\ user_profile'.pause_history = <<>>
        /\ vad' = VADDetector_init]_vars

\* the bootstrap window: the profile is not calibrated and the detector
\* says it is calibrating
Calibrating ==
    /\ ~user_profile.is_calibrated
    /\ is_calibrating(vad) = "True"

\* C23: recalibration is idempotent: a second recalibrate text handled right
\* after a first leaves the profile, the detector and the speaking-rate
\* calculator as the first left them, and each of them leaves the system
\* calibrating.
C23_RecalibrateIdempotent ==
    /\ [][(SessionText /\ pcalls.last = "recalibrate"
                       /\ pcalls'.last = "recalibrate") =>
            /\ user_profile' = user_profile
            /\ vad' = vad
            /\ asm'.speaking_rate_calc = asm.speaking_rate_calc]_vars
    /\ [](pcalls.last = "recalibrate" => Calibrating)

\* C24: when CALIBRATION_DURATION has elapsed and total_words_spoken is
\* below MIN_CALIBRATION_WORDS, calibration is not completed: the system is
\* still calibrating, and is_calibrated does not become true before the
\* word minimum has been reached.
C24_WindowExtendedBelowWordMinimum ==
    /\ []((/\ now - StartTime >= CALIBRATION_DURATION
           /\ user_profile.total_words_spoken < MIN_CALIBRATION_WORDS)
          => Calibrating)
    /\ [][(~user_profile.is_calibrated /\ user_profile'.is_calibrated)
            => user_profile'.total_words_spoken >= MIN_CALIBRATION_WORDS]_vars

\* the transcription thread is scheduled and handles the texts that keep
\* coming; the clock goes on to the end of the session
SpecSessionFair ==
    InitSession /\ [][NextSession]_vars
        /\ WF_vars(SessionText) /\ WF_vars(SessionTick)

\* C25: calibration completion issues exactly one style-analysis request
\* per session: never a second one, whatever is transcribed or recalibrated
\* later; and a session that began uncalibrated and has transcribed the
\* word minimum over the calibration duration (so that calibration is to
\* complete, with transcripts collected) comes to a calibrated profile with
\* its one request issued.
C25_OneStyleRequestPerSession ==
    /\ [](pcalls.requests <= 1)
    /\ (/\ ~user_profile.is_calibrated
        /\ pcalls.words >= MIN_CALIBRATION_WORDS
        /\ now - StartTime >= CALIBRATION_DURATION)
          ~> (user_profile.is_calibrated /\ pcalls.requests = 1)

\* C26: the profile update made for a handled text (lines 302-310) uses
\* learning rate 1.0 in the calibration window, so that each pause average
\* becomes the mean of the matching pause durations of the history, and 0.1
\* after calibration, so that it becomes 0.1 x that mean + 0.9 x the
\* previous average.  (A recalibrate text empties the history afterwards
\* and is left aside.)
C26_LearningRateByCalibration ==
    [][(SessionText /\ pcalls'.last # "recalibrate") =>
        LET rate == IF user_profile.is_calibrated
                    THEN POST_CALIBRATION_LEARNING_RATE
                    ELSE CALIBRATION_LEARNING_RATE
            h    == user_profile.pause_history
        IN  /\ user_profile'.avg_within_sentence_pause
                 = moving_average(Durations(h, "within_sentence", 1),
                       user_profile.avg_within_sentence_pause, rate)
            /\ user_profile'.avg_between_sentence_pause
                 = moving_average(Durations(h, "between_sentences", 1),
                       user_profile.avg_between_sentence_pause, rate)
            /\ user_profile'.avg_thinking_pause
                 = moving_average(Durations(h, "thinking", 1),
                       user_profile.avg_thinking_pause, rate)]_vars

----------------------------------------------------------------------------
(* The profile store: save_profile and load_profile on the file of one     *)
(* user id, for profiles of many values, and files that something else     *)
(* wrote or damaged.                                                       *)

\* Profiles to save: every combination of these field values
StoreProfiles ==
    { [UserSpeechProfile_default EXCEPT
          !.is_calibrated = c,
          !.total_words_spoken = IF n THEN 90 ELSE 0,
          !.words_per_minute = IF n THEN 0 ELSE 180,
          !.avg_thinking_pause = IF n THEN 1 ELSE 2000000,
          !.style_summary = st,
          !.pause_history = h] :
        c \in BOOLEAN, n \in BOOLEAN, st \in {"None", "null"},
        h \in {<<>>, LearnedProfile.pause_history} }
        \cup {LearnedProfile}

\* the text of a saved profile
LearnedText == json_dump(to_dict(LearnedProfile))

\* Files load_profile cannot make a profile of: nothing at the path, a file
\* that cannot be opened or parsed, an object with a key that is no field,
\* one without user_id, one whose words_per_minute is null
BadFiles ==
    { <<>>,
      <<unreadable_file>>,
      <<[kind |-> "json",
         text |-> [key \in ProfileFields \cup {"version"} |->
                      IF key = "version" THEN json_number(2)
                      ELSE LearnedText[key]]]>>,
      <<[kind |-> "json",
         text |-> [key \in ProfileFields \ {"user_id"} |-> LearnedText[key]]]>>,
      <<[kind |-> "json",
         text |-> [LearnedText EXCEPT !["words_per_minute"] = json_null]]>> }

\* save_profile(self.user_profile)
SaveProfile ==
    /\ profile_file' = save_profile(user_profile)
    /\ pcalls' = [pcalls EXCEPT !.store = [op |-> "save", profile |-> user_profile]]
    /\ UNCHANGED <<vadVars, batchVars, pipeVars, user_profile>>

\* self.user_profile = load_profile(user_id)
LoadProfile ==
    /\ user_profile' = load_profile(profile_file, DEFAULT_USER_ID)
    /\ pcalls' = [pcalls EXCEPT !.store.op =
                     IF @ = "save" THEN "load_after_save"
                     ELSE IF @ = "damage" THEN "load_after_damage"
                     ELSE "load"]
    /\ UNCHANGED <<vadVars, batchVars, pipeVars, profile_file>>

\* the file is removed, damaged or replaced by something else
DamageFile ==
    /\ \E file \in BadFiles : profile_file' = file
    /\ pcalls' = [pcalls EXCEPT !.store.op = "damage"]
    /\ UNCHANGED <<vadVars, batchVars, pipeVars, user_profile>>

\* the profile takes another value
ChangeProfile ==
    /\ \E profile \in StoreProfiles : user_profile' = profile
    /\ pcalls' = [pcalls EXCEPT !.store.op =
                     IF @ \in {"save", "damage"} THEN @ ELSE "none"]
    /\ UNCHANGED <<vadVars, batchVars, pipeVars, profile_file>>

NextStore ==
    \/ SaveProfile
    \/ LoadProfile
    \/ DamageFile
    \/ ChangeProfile

InitStore ==
    /\ VADStart /\ PipeIdle /\ BatchIdle
    /\ user_profile \in StoreProfiles
    /\ profile_file = <<>>
    /\ pcalls = PcallsInit

SpecStore == InitStore /\ [][NextStore]_vars

----------------------------------------------------------------------------
(* A long run of add_pause calls on one profile.  The n-th pause to arrive *)
(* lasts n microseconds, so that the history shows which pauses it holds.  *)

MaxLongPauses == 103

\* add_pause(profile, pause) with the next pause
PauseArrives ==
    /\ pcalls.pauses < MaxLongPauses
    /\ LET n == pcalls.pauses + 1
       IN  user_profile' = add_pause(user_profile,
               [duration |-> n,
                location |-> IF n % 2 = 0 THEN "within_sentence"
                             ELSE "between_sentences",
                was_thinking_pause |-> n % 3 = 0])
    /\ pcalls' = [pcalls EXCEPT !.pauses = @ + 1]
    /\ UNCHANGED <<vadVars, batchVars, pipeVars, profile_file>>

NextPauses == PauseArrives

InitPauses == VADStart /\ PipeIdle /\ BatchIdle /\ ProfileIdle

SpecPauses == InitPauses /\ [][NextPauses]_vars

\* C29: after any sequence of add_pause calls the history holds at most 100
\* pauses, and they are the most recent min(n, 100) in arrival order: the
\* oldest is the one evicted.
C29_HistoryIsLastHundred ==
    LET n == pcalls.pauses
        h == user_profile.pause_history
    IN  /\ Len(h) <= PauseHistoryMax
        /\ Len(h) = IF n < PauseHistoryMax THEN n ELSE PauseHistoryMax
        /\ \A i \in 1..Len(h) : h[i].duration = n - Len(h) + i

\* 102 pauses have arrived: the first two were evicted
C29_Witness ==
    /\ pcalls.pauses = 102
    /\ Len(user_profile.pause_history) = PauseHistoryMax
    /\ user_profile.pause_history[1].duration = 3
    /\ user_profile.pause_history[PauseHistoryMax].duration = 102

----------------------------------------------------------------------------
(* The capture loop's handling of a frame (lines 206-244) for frames of    *)
(* every kind, those of a wrong size included; fed.run_kind is the kind of *)
(* the frame handled last.                                                 *)

MaxAnyFrames == 6

AnyFrame ==
    /\ fed.singles < MaxAnyFrames
    /\ \E frame \in FrameKinds :
          LET c == capture_frame(asm, vad, phist.frames + 1, frame,
                                 phist.finalized + 1)
          IN  /\ vad' = c.vad
              /\ vad_result' = c.result
              /\ asm' = c.asm
              /\ fed' = [fed EXCEPT !.singles = @ + 1, !.run_kind = frame]
              /\ phist' = [phist EXCEPT !.frames = @ + 1,
                                        !.finalized = IF c.put THEN @ + 1 ELSE @]
    /\ UNCHANGED <<hist, cap, tr, main, batchVars, profVars>>

NextAnyFrame == AnyFrame

InitAnyFrame == VADStart /\ PipeIdle /\ BatchIdle /\ ProfileIdle

SpecAnyFrame == InitAnyFrame /\ [][NextAnyFrame]_vars

\* C30: a frame whose length differs from the frame size never reaches the
\* state machine: process_frame returns no event for it and leaves the
\* Idle/Recording state, the counters, thinking mode and the smoothing
\* buffer as they were, and the capture loop buffers no audio for it.
C30_WrongSizeFrameChangesNothing ==
    [][(fed'.singles # fed.singles /\ fed'.run_kind = "wrong_size") =>
        /\ vad_result' = "None"
        /\ vad' = vad
        /\ asm' = asm]_vars

\* a frame of the wrong size came while an utterance was being recorded: the
\* detector is still Recording and the buffer holds the frames before it
C30_Witness ==
    /\ fed.run_kind = "wrong_size"
    /\ vad_result = "None"
    /\ vad.is_speaking
    /\ asm.is_listening
    /\ Len(asm.audio_buffer) = 2
    /\ phist.frames = 3

----------------------------------------------------------------------------
(* One capture loop of a started manager, fed bursts of frames that are    *)
(* classified speech, classified not speech or fail in webrtcvad, and      *)
(* stopped at any moment: stop() clears is_running and the loop ends,      *)
(* whatever the buffer holds.  phist.expected follows the events           *)
(* process_frame returns: the frame of the last speech_start and the       *)
(* frames that returned speech_continue or silence since.                  *)

UttMaxBursts == 7

UttBurstLen == 40

\* the frames of the utterance after process_frame returned result for
\* frame frame_no
ExpectedAfter(expected, result, frame_no) ==
    CASE result = "speech_start" -> <<frame_no>>
      [] result \in {"speech_continue", "silence"} -> Append(expected, frame_no)
      [] OTHER -> expected

UtteranceFrame ==
    /\ asm.is_running
    /\ \E frame \in PipeFrameKinds :
          /\ SourceBurst(frame, PipeFrameKinds, UttMaxBursts, UttBurstLen)
          /\ LET c == capture_frame(asm, vad, phist.frames + 1, frame,
                                    phist.finalized + 1)
                 e == ExpectedAfter(phist.expected, c.result, phist.frames + 1)
             IN  /\ vad' = c.vad
                 /\ vad_result' = c.result
                 /\ asm' = c.asm
                 /\ phist' = [phist EXCEPT
                                !.frames = @ + 1,
                                !.finalized = IF c.put THEN @ + 1 ELSE @,
                                !.expected = IF c.put THEN <<>> ELSE e]
    /\ UNCHANGED <<hist, cap, tr, main, batchVars, profVars>>

\* stop(), line 168, and the capture loop's exit at its next while test
UtteranceStop ==
    /\ asm.is_running
    /\ fed.run_left = 0
    /\ asm' = [asm EXCEPT !.is_running = FALSE]
    /\ cap' = [cap EXCEPT ![1] = "ended"]
    /\ main' = [main EXCEPT !.pc = "idle"]
    /\ UNCHANGED <<tr, phist, vadVars, batchVars, profVars>>

NextUtterance ==
    \/ UtteranceFrame
    \/ UtteranceStop

InitUtterance ==
    /\ VADStart /\ BatchIdle /\ ProfileIdle
    /\ asm = [AudioStreamManager_init EXCEPT !.is_running = TRUE,
                                             !.stream = "open"]
    /\ cap = [k \in Starts |-> IF k = 1 THEN "loop" ELSE "none"]
    /\ tr = [k \in Starts |-> [pc |-> IF k = 1 THEN "loop" ELSE "none",
                                audio_bytes |-> NoItem]]
    /\ main = [pc |-> "started", starts |-> 1]
    /\ phist = [frames |-> 0, finalized |-> 0, handed |-> <<>>, texted |-> 0,
                callbacks |-> 0, expected |-> <<>>]

SpecUtterance == InitUtterance /\ [][NextUtterance]_vars

----------------------------------------------------------------------------
(* The command vocabularies of audio_config.py and their matching in the   *)
(* transcription loop.  A text is a sequence of characters.                *)

\* THINKING_COMMANDS = ["wait", "hold on", "give me a second", "let me think", "thinking"]
THINKING_COMMANDS ==
    {
      <<"w", "a", "i", "t">>,
      <<"h", "o", "l", "d", " ", "o", "n">>,
      <<"g", "i", "v", "e", " ", "m", "e", " ", "a", " ", "s", "e", "c",
        "o", "n", "d">>,
      <<"l", "e", "t", " ", "m", "e", " ", "t", "h", "i", "n", "k">>,
      <<"t", "h", "i", "n", "k", "i", "n", "g">>
    }

\* CONTINUE_COMMANDS = ["okay", "continue", "go ahead", "keep going"]
CONTINUE_COMMANDS ==
    {
      <<"o", "k", "a", "y">>,
      <<"c", "o", "n", "t", "i", "n", "u", "e">>,
      <<"g", "o", " ", "a", "h", "e", "a", "d">>,
      <<"k", "e", "e", "p", " ", "g", "o", "i", "n", "g">>
    }

\* RECALIBRATE_COMMANDS = ["recalibrate", "reset calibration", "start over"]
RECALIBRATE_COMMANDS ==
    {
      <<"r", "e", "c", "a", "l", "i", "b", "r", "a", "t", "e">>,
      <<"r", "e", "s", "e", "t", " ", "c", "a", "l", "i", "b", "r", "a",
        "t", "i", "o", "n">>,
      <<"s", "t", "a", "r", "t", " ", "o", "v", "e", "r">>
    }

\* NEED_MORE_TIME_COMMANDS = ["need more time", "slower today", "give me more time"]
NEED_MORE_TIME_COMMANDS ==
    {
      <<"n", "e", "e", "d", " ", "m", "o", "r", "e", " ", "t", "i", "m",
        "e">>,
      <<"s", "l", "o", "w", "e", "r", " ", "t", "o", "d", "a", "y">>,
      <<"g", "i", "v", "e", " ", "m", "e", " ", "m", "o", "r", "e", " ",
        "t", "i", "m", "e">>
    }

Uppercase ==
    <<"A", "B", "C", "D", "E", "F", "G", "H", "I", "J", "K", "L", "M">> \o
    <<"N", "O", "P", "Q", "R", "S", "T", "U", "V", "W", "X", "Y", "Z">>

Lowercase ==
    <<"a", "b", "c", "d", "e", "f", "g", "h", "i", "j", "k", "l", "m">> \o
    <<"n", "o", "p", "q", "r", "s", "t", "u", "v", "w", "x", "y", "z">>

\* str.lower()
lower(text) ==
    [i \in 1..Len(text) |->
        IF \E k \in 1..Len(Uppercase) : Uppercase[k] = text[i]
        THEN Lowercase[CHOOSE k \in 1..Len(Uppercase) : Uppercase[k] = text[i]]
        ELSE text[i]]

\* cmd in text_lower: cmd is a substring of the text
contains(text, cmd) ==
    \E i \in 1..(Len(text) - Len(cmd) + 1) :
        \A j \in 1..Len(cmd) : text[i + j - 1] = cmd[j]

\* any(cmd in text_lower for cmd in commands)
any_in(text_lower, commands) == \E cmd \in commands : contains(text_lower, cmd)

\* the if / elif chain of lines 348-364: which command a text is taken
\* for, "plain" if for none
command_of(text) ==
    LET text_lower == lower(text) IN
    IF any_in(text_lower, RECALIBRATE_COMMANDS) THEN "recalibrate"
    ELSE IF any_in(text_lower, NEED_MORE_TIME_COMMANDS) THEN "more_time"
    ELSE IF any_in(text_lower, THINKING_COMMANDS) THEN "thinking"
    ELSE IF any_in(text_lower, CONTINUE_COMMANDS) THEN "continue"
    ELSE "plain"

\* what the transcriber may return in this session
CommandTexts ==
    {
      <<"S", "t", "a", "r", "t", " ", "o", "v", "e", "r", ",", " ", "I",
        " ", "n", "e", "e", "d", " ", "m", "o", "r", "e", " ", "t", "i",
        "m", "e">>,
      <<"W", "A", "I", "T">>,
      <<"O", "k", "a", "y", ",", " ", "h", "o", "l", "d", " ", "o", "n">>,
      <<"G", "o", " ", "a", "h", "e", "a", "d">>,
      <<"I", " ", "a", "m", " ", "r", "e", "t", "h", "i", "n", "k", "i",
        "n", "g", " ", "i", "t">>,
      <<"S", "l", "o", "w", "e", "r", " ", "t", "o", "d", "a", "y", ",",
        " ", "k", "e", "e", "p", " ", "g", "o", "i", "n", "g">>,
      <<"H", "e", "l", "l", "o", " ", "t", "h", "e", "r", "e">>
    }

\* the transcription loop handles a text
CommandText ==
    /\ asm.is_running
    /\ \E text \in CommandTexts, duration \in SegmentDurations :
        LET h == handle_text(asm, vad, user_profile, profile_file,
                             command_of(text), duration)
        IN  /\ asm' = h.asm
            /\ vad' = h.vad
            /\ user_profile' = h.profile
            /\ profile_file' = h.file
            /\ pcalls' = [pcalls EXCEPT
                  !.texts = IF @ < 2 THEN @ + 1 ELSE @,
                  !.requests = IF h.requested THEN @ + 1 ELSE @,
                  !.last = command_of(text),
                  !.heard = text]
            /\ UNCHANGED <<vad_result, hist, fed, cap, tr, main, phist, batchVars>>

NextCommands ==
    \/ SessionFrame
    \/ SessionTick
    \/ CommandText

InitCommands == InitSession

SpecCommands == InitCommands /\ [][NextCommands]_vars

\* C34: for each transcribed text the commands are matched by
\* case-insensitive substring and one action at most is applied, that of the
\* first vocabulary matched in the order recalibrate, need more time,
\* thinking-mode enter, thinking-mode exit; a text that matches none leaves
\* the detector as it was and resets nothing of the calibration.
C34_OneCommandByPriority ==
    [][CommandText =>
        LET t == lower(pcalls'.heard) IN
        IF any_in(t, RECALIBRATE_COMMANDS)
        THEN vad' = VADDetector_init /\ ~user_profile'.is_calibrated
        ELSE IF any_in(t, NEED_MORE_TIME_COMMANDS)
        THEN vad' = adjust_for_more_time(vad)
        ELSE IF any_in(t, THINKING_COMMANDS)
        THEN vad' = enter_thinking_mode(vad)
        ELSE IF any_in(t, CONTINUE_COMMANDS)
        THEN vad' = exit_thinking_mode(vad)
        ELSE /\ vad' = vad
             /\ user_profile.is_calibrated => user_profile'.is_calibrated
             /\ Len(user_profile'.pause_history) >= Len(user_profile.pause_history)]_vars

----------------------------------------------------------------------------
(* The smoothing of the raw decisions: the detector is given frames of any *)
(* kind one by one, and reset at any moment; hist.raw keeps the raw        *)
(* decision of every frame it accepted.                                    *)

MaxSmoothFrames == 12

SmoothFrame ==
    /\ fed.singles < MaxSmoothFrames
    /\ \E frame \in FrameKinds :
          LET p == process_frame(vad, frame)
          IN  /\ vad' = p.vad
              /\ vad_result' = p.result
              /\ hist' = IF frame \in {"speech", "nonspeech"}
                         THEN [hist EXCEPT !.raw = Append(@, frame = "speech")]
                         ELSE hist
    /\ fed' = [fed EXCEPT !.singles = @ + 1]
    /\ UNCHANGED <<batchVars, pipeVars, profVars>>

SmoothReset ==
    /\ vad # reset(vad)
    /\ vad' = reset(vad)
    /\ hist' = [hist EXCEPT !.raw = <<>>]
    /\ UNCHANGED <<vad_result, fed, batchVars, pipeVars, profVars>>

NextSmoothing ==
    \/ SmoothFrame
    \/ SmoothReset

InitSmoothing == VADStart /\ PipeIdle /\ BatchIdle /\ ProfileIdle

SpecSmoothing == InitSmoothing /\ [][NextSmoothing]_vars

\* the raw decisions of the smoothing window: of the up to RingMaxLen most
\* recent accepted frames
WindowOf(raw) ==
    IF Len(raw) <= RingMaxLen THEN raw
    ELSE SubSeq(raw, Len(raw) - RingMaxLen + 1, Len(raw))

SpeechIn(w) == Cardinality({i \in 1..Len(w) : w[i]})

\* C35: the smoothed decision for an accepted frame is speech if and only
\* if strictly more than half of the raw decisions of the window (the up to
\* 10 most recent accepted frames, this one included) are speech; a tie is
\* silence, and in a full window a single raw speech frame among silence
\* frames gives no smoothed speech.  (The frame was taken as speech exactly
\* when speech_frames is not zero after it.)
C35_SmoothedIsStrictMajority ==
    LET w == WindowOf(hist.raw) IN
    /\ vad.ring_buffer = w
    /\ hist.raw # <<>> =>
         /\ vad.speech_frames > 0 <=> 2 * SpeechIn(w) > Len(w)
         /\ vad.silence_frames > 0 <=> 2 * SpeechIn(w) <= Len(w)
    /\ (Len(w) = RingMaxLen /\ SpeechIn(w) = 1) => vad.speech_frames = 0

\* a tie in a full window that has dropped speech frames: five of the last
\* ten decisions are speech, seven of all twelve, and the frame was taken as
\* silence while Recording
C35_Witness ==
    /\ Len(hist.raw) = MaxSmoothFrames
    /\ SpeechIn(WindowOf(hist.raw)) * 2 = RingMaxLen
    /\ SpeechIn(hist.raw) = 7
    /\ hist.raw[Len(hist.raw)]
    /\ vad.speech_frames = 0
    /\ vad.is_speaking
    /\ vad_result = "silence"

----------------------------------------------------------------------------
(* The capture loops at the grain of their statements: process_frame       *)
(* (line 207) is one step and the branch on its result (lines 218-244)     *)
(* another; cap[k] says which branch loop k is about to take.  A frame is  *)
(* known, when it is buffered, by the number of frames read so far.        *)

RaceMaxBursts == 2

RaceBurstLen == 6

Branches == {"speech_start", "speech_continue", "speech_end", "silence"}

\* vad_result, pause_info = self.vad.process_frame(frame)
RaceProcess(k) ==
    /\ cap[k] = "loop"
    /\ asm.is_running
    /\ \E frame \in PipeFrameKinds :
          /\ SourceBurst(frame,
                         IF fed.bursts % 2 = 0 THEN {"speech"} ELSE {"nonspeech"},
                         RaceMaxBursts, RaceBurstLen)
          /\ LET p == process_frame(vad, frame)
             IN  /\ vad' = p.vad
                 /\ vad_result' = p.result
                 /\ cap' = IF p.result \in Branches
                           THEN [cap EXCEPT ![k] = p.result] ELSE cap
                 /\ phist' = [phist EXCEPT !.frames = @ + 1]
    /\ UNCHANGED <<asm, tr, main, hist, batchVars, profVars>>

\* if vad_result == "speech_start": ... elif ...
RaceBranch(k) ==
    /\ cap[k] \in Branches
    /\ LET no == phist.finalized + 1
           c  == CASE cap[k] = "speech_start" ->
                       [asm |-> OnSpeechStart(asm, phist.frames), vad |-> vad,
                        put |-> FALSE]
                   [] cap[k] = "speech_continue" ->
                       OnSpeechContinue(asm, vad, phist.frames, no)
                   [] cap[k] = "speech_end" ->
                       IF asm.is_listening /\ Len(asm.audio_buffer) > 0
                       THEN _finalize_recording(asm, vad, no)
                       ELSE [asm |-> asm, vad |-> vad, put |-> FALSE]
                   [] OTHER -> OnSilence(asm, vad, phist.frames)
       IN  /\ asm' = c.asm
           /\ vad' = c.vad
           /\ phist' = [phist EXCEPT !.finalized = IF c.put THEN @ + 1 ELSE @]
    /\ cap' = [cap EXCEPT ![k] = "loop"]
    /\ UNCHANGED <<vad_result, hist, fed, tr, main, batchVars, profVars>>

NextFrameRace ==
    \/ StartSpawn
    \/ StartLog
    \/ \E k \in Starts : RaceProcess(k)
    \/ \E k \in Starts : RaceBranch(k)
    \/ \E k \in Starts : CaptureExit(k)

InitFrameRace == VADStart /\ PipeIdle /\ BatchIdle /\ ProfileIdle

SpecFrameRace == InitFrameRace /\ [][NextFrameRace]_vars

\* C37: at every frame boundary, that is whenever a capture loop takes its
\* next frame, is_listening is true exactly when the detector is Recording;
\* and the frames buffered for an open utterance leave the buffer only by
\* being enqueued, never by a later speech_start.
C37_ListeningIffRecording ==
    /\ [][phist'.frames # phist.frames =>
             asm.is_listening = vad.is_speaking]_vars
    /\ [][~IsPrefix(asm.audio_buffer, asm'.audio_buffer) =>
             phist'.finalized # phist.finalized]_vars

----------------------------------------------------------------------------
(* The three active thresholds under repeated adjust_for_more_time calls,  *)
(* interleaved with frames of any kind and resets.                         *)

MaxManyAdjusts == 12

ManyAdjust ==
    /\ fed.adjusts < MaxManyAdjusts
    /\ vad' = adjust_for_more_time(vad)
    /\ fed' = [fed EXCEPT !.adjusts = @ + 1]
    /\ UNCHANGED <<vad_result, hist, batchVars, pipeVars, profVars>>

NextThresholds ==
    \/ SmoothFrame
    \/ SmoothReset
    \/ ManyAdjust

InitThresholds == InitSmoothing

SpecThresholds == InitThresholds /\ [][NextThresholds]_vars

\* C39: in every reachable state of a VADDetector
\* current_silence_threshold < current_thinking_threshold <
\* current_max_silence: the order holds at construction and is kept by
\* adjust_for_more_time calls interleaved with frames and resets.
C39_ActiveThresholdsOrdered ==
    /\ vad.current_silence_threshold < vad.current_thinking_threshold
    /\ vad.current_thinking_threshold < vad.current_max_silence

\* after several adjustments, with frames and a reset in between, the
\* silence threshold is above the maximum silence of construction
C39_Witness ==
    /\ fed.adjusts >= 3
    /\ vad.current_silence_threshold > MAX_SILENCE_BEFORE_INTERRUPT
    /\ vad.is_speaking
    /\ Len(hist.raw) = 1
    /\ fed.singles >= 3

----------------------------------------------------------------------------
(* reset_calibration among the other calls of the profile manager: the     *)
(* profile is saved, loaded, changed and reset in any order.               *)

\* self.profile_manager.reset_calibration(self.user_profile)
ResetCalibration ==
    /\ user_profile' = reset_calibration(user_profile)
    /\ pcalls' = [pcalls EXCEPT !.store.op = "reset"]
    /\ UNCHANGED <<vadVars, batchVars, pipeVars, profile_file>>

NextRecalibrate ==
    \/ SaveProfile
    \/ LoadProfile
    \/ ChangeProfile
    \/ ResetCalibration

InitRecalibrate == InitStore

SpecRecalibrate == InitRecalibrate /\ [][NextRecalibrate]_vars

\* the fields reset_calibration assigns
ResetFields ==
    {"is_calibrated", "calibration_time", "total_words_spoken", "pause_history"}

\* C40: reset_calibration changes only is_calibrated, calibration_time,
\* total_words_spoken and pause_history: the learned pause averages,
\* words_per_minute, the three derived thresholds and the style summary
\* keep their values, and the call does not write the profile's file.
C40_ResetCalibrationTouchesFourFields ==
    [][ResetCalibration =>
        /\ \A f \in ProfileFields \ ResetFields : user_profile'[f] = user_profile[f]
        /\ ~user_profile'.is_calibrated
        /\ user_profile'.calibration_time = 0
        /\ user_profile'.total_words_spoken = 0
        /\ user_profile'.pause_history = <<>>
        /\ profile_file' = profile_file]_vars

\* a calibrated profile with learned values was saved and then reset: it
\* keeps what it learned, and the file still holds the calibrated profile
C40_Witness ==
    /\ pcalls.store.op = "reset"
    /\ ~user_profile.is_calibrated
    /\ user_profile.pause_history = <<>>
    /\ user_profile.avg_between_sentence_pause
         = LearnedProfile.avg_between_sentence_pause
    /\ user_profile.silence_threshold = LearnedProfile.silence_threshold
    /\ user_profile.style_summary = LearnedProfile.style_summary
    /\ profile_file = save_profile(LearnedProfile)

====
